---- MODULE Spec2Model ----
(***************************************************************************)
(* A model of github.com/daishe/jsonflag: the reflective discovery of flag *)
(* values inside a structure (New, Recursive, Filter) and the per-kind     *)
(* value binding (Value.Get, Value.String, Value.Set) that reads and       *)
(* writes the caller's structure through a path of field indexes.          *)
(*                                                                         *)
(* Texts are sequences of one-character strings.  The caller's memory is   *)
(* a heap of cells; a pointer is the address of a cell (0 is nil).  Struct *)
(* fields are held inline in the cell of the struct.                       *)
(***************************************************************************)
EXTENDS Integers, Sequences, FiniteSets, TLC

VARIABLES
    root,       \* the argument handed to New or Recursive (base any)
    heap,       \* the caller's memory: heap[1] is the value the root points to
    filters,    \* the filter chain handed to Recursive
    nodes,      \* the flag values returned by Recursive or New
    seen,       \* the positions Recursive asked the filter chain about
    zeroVal,    \* a zero-valued Value{} (no bound location)
    pre,        \* the heap before the last operation
    last,       \* the last operation and what it returned
    ops,        \* the number of method calls made on the nodes
    stack       \* the calls of recursive in progress, the outermost first

vars == <<root, heap, filters, nodes, seen, zeroVal, pre, last, ops, stack>>

(***************************************************************************)
(* Bounds of the model.                                                    *)
(***************************************************************************)
MaxOps == 2
MaxFilters == 2
\* The calls of recursive that fit on the stack of the goroutine.
MaxDepth == 5

(***************************************************************************)
(* reflect.Type: kinds, and the struct types the model binds.              *)
(***************************************************************************)
Prim(k) == [kind |-> k]
PtrTo(t) == [kind |-> "ptr", elem |-> t]
SliceOf(t) == [kind |-> "slice", elem |-> t]
MapOf(t) == [kind |-> "map", elem |-> t]
StructOf(n, a) == [kind |-> "struct", name |-> n, arg |-> a]

\* A type the caller defines (type MyInt8 int8): the kind of the type it is
\* defined from, and a name of its own.
Defined(n, t) == [f \in DOMAIN t \cup {"named"} |-> IF f = "named" THEN n ELSE t[f]]

TBool == Prim("bool")
TInt8 == Prim("int8")
TUint8 == Prim("uint8")
TInt16 == Prim("int16")
TInt32 == Prim("int32")
TInt64 == Prim("int64")
TUint16 == Prim("uint16")
TUint32 == Prim("uint32")
TUint64 == Prim("uint64")
TInt == Prim("int")
TUint == Prim("uint")
TFloat32 == Prim("float32")
TFloat64 == Prim("float64")
TComplex64 == Prim("complex64")
TComplex128 == Prim("complex128")
TString == Prim("string")
TChan == Prim("chan")
TBytes == SliceOf(TUint8)
TStrings == SliceOf(TString)
TStringMap == MapOf(TString)
TTestStruct == StructOf("TestStruct", TString)
TInput == StructOf("Input", TString)
TLinked == StructOf("Linked", TString)
TNamedInt8 == Defined("NamedInt8", TInt8)
TNamedString == Defined("NamedString", TString)
TNamedBytes == Defined("NamedBytes", TBytes)
TGen(e) == StructOf("TestGenericType", e)

\* Two struct types of a caller, which the repository does not declare (base
\* is an any): Nested has a value field, a pointer field and a pointer to a
\* generic struct; Hidden has one unexported field.
TNested == StructOf("Nested", TTestStruct)
THidden == StructOf("Hidden", TInt8)

\* reflect.StructField: the name, the type, whether the field is exported, and
\* the value of its json tag (HasJson is false when the field has no json tag).
StructField(n, t, x, has, tag) ==
    [Name |-> n, Type |-> t, Exported |-> x, HasJson |-> has, Json |-> tag]

\* The fields of a struct type, in declaration order.
StructFields(t) ==
    CASE t.name = "Input" ->
            << StructField(<<"F", "o", "o">>, TString, TRUE, TRUE, <<"F", "o", "o">>),
               StructField(<<"B", "a", "r">>, TString, TRUE, TRUE, <<"B", "a", "r">>),
               StructField(<<"B", "a", "z">>, TString, TRUE, TRUE, <<"B", "a", "z">>) >>
      [] t.name = "TestStruct" ->
            << StructField(<<"V", "a", "l", "u", "e">>, TString, TRUE, TRUE, <<"V", "a", "l", "u", "e", ",", "o", "m", "i", "t", "e", "m", "p", "t", "y">>) >>
      [] t.name = "Linked" ->
            << StructField(<<"V", "a", "l", "u", "e">>, TString, TRUE, TRUE, <<"V", "a", "l", "u", "e", ",", "o", "m", "i", "t", "e", "m", "p", "t", "y">>),
               StructField(<<"N", "e", "x", "t">>, PtrTo(t), TRUE, TRUE, <<"N", "e", "x", "t", ",", "o", "m", "i", "t", "e", "m", "p", "t", "y">>) >>
      [] t.name = "Hidden" ->
            << StructField(<<"u", "n", "e", "x", "p", "o", "r", "t", "e", "d">>, TInt8, FALSE, TRUE, <<"u", "n", "e", "x", "p", "o", "r", "t", "e", "d", ",", "o", "m", "i", "t", "e", "m", "p", "t", "y">>) >>
      [] t.name = "TestGenericType" ->
            << StructField(<<"V", "a", "l", "u", "e">>, t.arg, TRUE, TRUE, <<"V", "a", "l", "u", "e", ",", "o", "m", "i", "t", "e", "m", "p", "t", "y">>),
               StructField(<<"P", "t", "r">>, PtrTo(t.arg), TRUE, TRUE, <<"P", "t", "r", ",", "o", "m", "i", "t", "e", "m", "p", "t", "y">>),
               StructField(<<"S", "l", "i", "c", "e", "O", "f", "V", "a", "l", "u", "e", "s">>, SliceOf(t.arg), TRUE, TRUE,
                           <<"S", "l", "i", "c", "e", "O", "f", "V", "a", "l", "u", "e", "s", ",", "o", "m", "i", "t", "e", "m", "p", "t", "y">>),
               StructField(<<"P", "t", "r", "T", "o", "S", "l", "i", "c", "e", "O", "f", "V", "a", "l", "u", "e", "s">>, PtrTo(SliceOf(t.arg)), TRUE, TRUE,
                           <<"P", "t", "r", "T", "o", "S", "l", "i", "c", "e", "O", "f", "V", "a", "l", "u", "e", "s", ",", "o", "m", "i", "t", "e", "m", "p", "t", "y">>),
               StructField(<<"S", "l", "i", "c", "e", "O", "f", "P", "t", "r", "s">>, SliceOf(PtrTo(t.arg)), TRUE, TRUE,
                           <<"S", "l", "i", "c", "e", "O", "f", "P", "t", "r", "s", ",", "o", "m", "i", "t", "e", "m", "p", "t", "y">>),
               StructField(<<"P", "t", "r", "T", "o", "S", "l", "i", "c", "e", "O", "f", "P", "t", "r", "s">>, PtrTo(SliceOf(PtrTo(t.arg))), TRUE, TRUE,
                           <<"P", "t", "r", "T", "o", "S", "l", "i", "c", "e", "O", "f", "P", "t", "r", "s", ",", "o", "m", "i", "t", "e", "m", "p", "t", "y">>) >>
      [] t.name = "Nested" ->
            << StructField(<<"S", "k", "i", "p", "V", "a", "l", "u", "e">>, TInt8, TRUE, TRUE, <<"S", "k", "i", "p", "V", "a", "l", "u", "e", ",", "o", "m", "i", "t", "e", "m", "p", "t", "y">>),
               StructField(<<"S", "k", "i", "p", "P", "t", "r">>, PtrTo(TInt8), TRUE, TRUE, <<"S", "k", "i", "p", "P", "t", "r", ",", "o", "m", "i", "t", "e", "m", "p", "t", "y">>),
               StructField(<<"S", "t", "r", "u", "c", "t">>, PtrTo(StructOf("TestGenericType", t.arg)), TRUE, TRUE,
                           <<"S", "t", "r", "u", "c", "t", ",", "o", "m", "i", "t", "e", "m", "p", "t", "y">>) >>

elemIfPtrType(t) == IF t.kind = "ptr" THEN t.elem ELSE t

(***************************************************************************)
(* Values.  Every value carries its kind in k.                             *)
(***************************************************************************)
VBool(b) == [k |-> "bool", v |-> b]
VInt(kind, n) == [k |-> kind, v |-> n]
VFloat(kind, f) == [k |-> kind, v |-> f]
VComplex(kind, c) == [k |-> kind, v |-> c]
VStr(s) == [k |-> "string", v |-> s]
VPtr(a) == [k |-> "ptr", a |-> a]
\* A slice: its elements e, and what its array holds after them (spare): the
\* elements that were written there while the slice was longer.  The rest of
\* the array, up to the capacity, holds zero values.
VSliceOver(e, spare) == [k |-> "slice", isnil |-> FALSE, e |-> e, spare |-> spare]
VSlice(e) == VSliceOver(e, <<>>)
VNilSlice == [k |-> "slice", isnil |-> TRUE, e |-> <<>>, spare |-> <<>>]
VMap(m) == [k |-> "map", isnil |-> FALSE, m |-> m]
VNilMap == [k |-> "map", isnil |-> TRUE, m |-> <<>>]
VStruct(f) == [k |-> "struct", f |-> f]
VChan == [k |-> "chan"]

IntKinds ==
    {"int", "int8", "int16", "int32", "int64", "uint", "uint8", "uint16", "uint32", "uint64"}
SignedKinds == {"int", "int8", "int16", "int32", "int64"}
FloatKinds == {"float32", "float64"}
ComplexKinds == {"complex64", "complex128"}
\* The kinds whose numbers pass the 32-bit integers of TLC.
WideKinds == IntKinds \ {"int8", "uint8"}

\* The size in bits of an integer or a float kind; int and uint have 64 bits
\* (strconv.IntSize of a 64-bit platform).
Bits(kind) ==
    CASE kind \in {"int8", "uint8"} -> 8
      [] kind \in {"int16", "uint16"} -> 16
      [] kind \in {"int32", "uint32", "float32"} -> 32
      [] OTHER -> 64

(***************************************************************************)
(* Numbers.  An integer wider than 8 bits is kept by its decimal digits, the most *)
(* significant first and without a leading zero (<<>> is 0), and a signed  *)
(* number as [neg, mag].  A value of int8 or uint8 holds a plain integer   *)
(* in v, a value of a wider kind holds [neg, mag].                         *)
(***************************************************************************)
RECURSIVE NatDigits(_)
NatDigits(n) == IF n = 0 THEN <<>> ELSE Append(NatDigits(n \div 10), n % 10)

RECURSIVE DigitsNat(_, _)
DigitsNat(a, n) == IF a = <<>> THEN n ELSE DigitsNat(Tail(a), n * 10 + a[1])

RECURSIVE DigitsLess(_, _)
\* a < b
DigitsLess(a, b) ==
    IF Len(a) # Len(b) THEN Len(a) < Len(b)
    ELSE IF a = <<>> THEN FALSE
    ELSE IF a[1] # b[1] THEN a[1] < b[1]
    ELSE DigitsLess(Tail(a), Tail(b))

RECURSIVE MulAdd(_, _, _)
\* a * m + c
MulAdd(a, m, c) ==
    IF a = <<>> THEN NatDigits(c)
    ELSE LET x == a[Len(a)] * m + c
         IN  Append(MulAdd(SubSeq(a, 1, Len(a) - 1), m, x \div 10), x % 10)

RECURSIVE Pred(_)
\* a - 1, for a > 0
Pred(a) ==
    IF a = <<1>> THEN <<>>
    ELSE IF a[Len(a)] > 0 THEN [a EXCEPT ![Len(a)] = @ - 1]
    ELSE Append(Pred(SubSeq(a, 1, Len(a) - 1)), 9)

RECURSIVE Doubled(_, _)
\* a << n, for a > 0
Doubled(a, n) == IF n = 0 \/ a = <<>> THEN a ELSE Doubled(MulAdd(a, 2, 0), n - 1)

\* 1 << n
Pow2Digits(n) == Doubled(<<1>>, n)

SInt(neg, mag) == [neg |-> neg /\ mag # <<>>, mag |-> mag]
IntOf(n) == IF n.neg THEN 0 - DigitsNat(n.mag, 0) ELSE DigitsNat(n.mag, 0)
SIntOf(i) == SInt(i < 0, NatDigits(IF i < 0 THEN 0 - i ELSE i))

\* reflect.ValueOf(v) for v of an integer kind, the number being n.
IntValue(kind, n) == VInt(kind, IF kind \in WideKinds THEN n ELSE IntOf(n))
\* reflect.Value.Int() and Uint(): the number an integer value holds.
Int64(d) == IF d.k \in WideKinds THEN d.v ELSE SIntOf(d.v)
Uint64(d) == Int64(d).mag

\* !v.OverflowInt(n), !v.OverflowUint(n) for v of the kind.
FitsKind(kind, n) ==
    IF kind \in SignedKinds
    THEN IF n.neg THEN ~DigitsLess(Pow2Digits(Bits(kind) - 1), n.mag)
         ELSE DigitsLess(n.mag, Pow2Digits(Bits(kind) - 1))
    ELSE ~n.neg /\ DigitsLess(n.mag, Pow2Digits(Bits(kind)))


(***************************************************************************)
(* Floating-point numbers: float32, float64 and the parts of complex64 and *)
(* complex128.  A float is [cls, neg, mant, exp] with cls "fin", "inf" or  *)
(* "nan"; a finite one is mant * 2^exp, mant being the decimal digits of   *)
(* an odd number, or it is zero (mant <<>>, exp 0), and it keeps its sign. *)
(***************************************************************************)
FFin(neg, mant, exp) ==
    [cls |-> "fin", neg |-> neg, mant |-> mant, exp |-> IF mant = <<>> THEN 0 ELSE exp]
FInf(neg) == [cls |-> "inf", neg |-> neg, mant |-> <<>>, exp |-> 0]
FNaN == [cls |-> "nan", neg |-> FALSE, mant |-> <<>>, exp |-> 0]
FZero == FFin(FALSE, <<>>, 0)
\* f == 0
FloatIsZero(f) == f.cls = "fin" /\ f.mant = <<>>

\* floatInfo of strconv: the bits of a mantissa with its leading bit, and the
\* exponents of the smallest and of the largest unit in the last place.
mantBits(bitSize) == IF bitSize = 32 THEN 24 ELSE 53
minExp(bitSize) == IF bitSize = 32 THEN -149 ELSE -1074
maxExp(bitSize) == IF bitSize = 32 THEN 104 ELSE 971

\* A complex number is [re, im], two floats of half its size.
CZero == [re |-> FZero, im |-> FZero]
\* c == 0
ComplexIsZero(c) == FloatIsZero(c.re) /\ FloatIsZero(c.im)


RECURSIVE ZeroOf(_)
\* reflect.Zero / reflect.New(t).Elem(): the zero value of a type.
ZeroOf(t) ==
    CASE t.kind = "bool" -> VBool(FALSE)
      [] t.kind \in IntKinds -> IntValue(t.kind, SIntOf(0))
      [] t.kind \in FloatKinds -> VFloat(t.kind, FZero)
      [] t.kind \in ComplexKinds -> VComplex(t.kind, CZero)
      [] t.kind = "string" -> VStr(<<>>)
      [] t.kind = "ptr" -> VPtr(0)
      [] t.kind = "slice" -> VNilSlice
      [] t.kind = "map" -> VNilMap
      [] t.kind = "struct" ->
            VStruct([i \in 1..Len(StructFields(t)) |-> ZeroOf(StructFields(t)[i].Type)])
      [] OTHER -> VChan

(***************************************************************************)
(* The heap.  A location is a cell and a path of field indexes inside it.  *)
(***************************************************************************)
Loc(a, p) == [a |-> a, p |-> p]

RECURSIVE Sub(_, _)
Sub(v, p) == IF p = <<>> THEN v ELSE Sub(v.f[Head(p)], Tail(p))

RECURSIVE Upd(_, _, _)
Upd(v, p, nv) ==
    IF p = <<>> THEN nv
    ELSE [v EXCEPT !.f = [@ EXCEPT ![Head(p)] = Upd(@, Tail(p), nv)]]

Load(h, loc) == Sub(h[loc.a], loc.p)
Store(h, loc, nv) == [h EXCEPT ![loc.a] = Upd(@, loc.p, nv)]

\* reflect.New(t) with the cell initialised to v: the new heap and the address.
Alloc(h, v) == [h |-> Append(h, v), a |-> Len(h) + 1]

(***************************************************************************)
(* Characters.                                                             *)
(***************************************************************************)
DigitChars == <<"0", "1", "2", "3", "4", "5", "6", "7", "8", "9">>
LowerChars == <<"a", "b", "c", "d", "e", "f", "g", "h", "i", "j", "k", "l", "m",
                "n", "o", "p", "q", "r", "s", "t", "u", "v", "w", "x", "y", "z">>
UpperChars == <<"A", "B", "C", "D", "E", "F", "G", "H", "I", "J", "K", "L", "M",
                "N", "O", "P", "Q", "R", "S", "T", "U", "V", "W", "X", "Y", "Z">>

InSeq(c, cs) == \E i \in 1..Len(cs) : cs[i] = c
IndexIn(c, cs) == CHOOSE i \in 1..Len(cs) : cs[i] = c

IsDigit(c) == InSeq(c, DigitChars)
\* strconv's lower(c): an upper-case letter becomes its lower-case letter.
lower(c) == IF InSeq(c, UpperChars) THEN LowerChars[IndexIn(c, UpperChars)] ELSE c
IsLetter(c) == InSeq(lower(c), LowerChars)

Drop(s, n) == SubSeq(s, n + 1, Len(s))

(***************************************************************************)
(* Runes.  A text is a sequence of runes.  A printable ASCII rune is the   *)
(* one-character string, but for the grave accent; the tab, the line feed, *)
(* the form feed and the carriage return are "\t", "\n", "\f" and "\r";    *)
(* every other rune is the string of its code point, "U+" and four or more *)
(* upper-case hexadecimal digits: "U+0008" is the backspace, "U+0060" the  *)
(* grave accent, "U+007F" the delete, "U+00E4" a-umlaut, "U+2028" the line *)
(* separator.                                                              *)
(***************************************************************************)
\* The printable ASCII characters in code order, from the space (32) to the tilde
\* (126), without the grave accent (96).
AsciiChars ==
    << " ", "!", "\"", "#", "$", "%", "&", "'", "(", ")", "*", "+", ",", "-", ".", "/",
       "0", "1", "2", "3", "4", "5", "6", "7", "8", "9", ":", ";", "<", "=", ">", "?",
       "@", "A", "B", "C", "D", "E", "F", "G", "H", "I", "J", "K", "L", "M", "N", "O",
       "P", "Q", "R", "S", "T", "U", "V", "W", "X", "Y", "Z", "[", "\\", "]", "^", "_",
       "a", "b", "c", "d", "e", "f", "g", "h", "i", "j", "k", "l", "m", "n", "o",
       "p", "q", "r", "s", "t", "u", "v", "w", "x", "y", "z", "{", "|", "}", "~" >>
HexUpper == DigitChars \o <<"A", "B", "C", "D", "E", "F">>
HexLower == DigitChars \o <<"a", "b", "c", "d", "e", "f">>

RECURSIVE hexValue(_, _, _)
\* The number written in upper-case hexadecimal from position i of the string c.
hexValue(c, i, n) ==
    IF i > Len(c) THEN n
    ELSE hexValue(c, i + 1, n * 16 + IndexIn(SubSeq(c, i, i), HexUpper) - 1)

\* The code point of a rune.
CodePoint(c) ==
    CASE c = "\t" -> 9
      [] c = "\n" -> 10
      [] c = "\f" -> 12
      [] c = "\r" -> 13
      [] Len(c) > 1 -> hexValue(c, 3, 0)
      [] OTHER -> IF IndexIn(c, AsciiChars) <= 64 THEN IndexIn(c, AsciiChars) + 31
                  ELSE IndexIn(c, AsciiChars) + 32

RECURSIVE hexText(_, _)
\* n in upper-case hexadecimal, as a string of at least w digits.
hexText(n, w) ==
    IF n = 0 /\ w <= 0 THEN ""
    ELSE hexText(n \div 16, w - 1) \o HexUpper[(n % 16) + 1]

\* The rune of a code point.
RuneOf(n) ==
    CASE n = 9 -> "\t"
      [] n = 10 -> "\n"
      [] n = 12 -> "\f"
      [] n = 13 -> "\r"
      [] n \in 32..95 -> AsciiChars[n - 31]
      [] n \in 97..126 -> AsciiChars[n - 32]
      [] OTHER -> "U+" \o hexText(n, 4)

\* utf8.AppendRune: the UTF-8 encoding of a rune.
utf8Bytes(c) ==
    LET enc(n) ==
            IF n < 128 THEN <<n>>
            ELSE IF n < 2048 THEN <<192 + (n \div 64), 128 + (n % 64)>>
            ELSE IF n < 65536
                 THEN <<224 + (n \div 4096), 128 + ((n \div 64) % 64), 128 + (n % 64)>>
            ELSE <<240 + (n \div 262144), 128 + ((n \div 4096) % 64),
                   128 + ((n \div 64) % 64), 128 + (n % 64)>>
    IN  enc(CodePoint(c))

RECURSIVE stringBytes(_)
\* The bytes of a string: what s[i] indexes.
stringBytes(s) == IF s = <<>> THEN <<>> ELSE utf8Bytes(Head(s)) \o stringBytes(Tail(s))

(***************************************************************************)
(* strconv.ParseBool, strconv.ParseUint and strconv.ParseInt with base 0,  *)
(* as parse.go calls them.  A result is [err, v]; err is "" on success.    *)
(***************************************************************************)
Res(e, v) == [err |-> e, v |-> v]

ParseBool(s) ==
    IF s \in { <<"1">>, <<"t">>, <<"T">>, <<"T", "R", "U", "E">>,
               <<"t", "r", "u", "e">>, <<"T", "r", "u", "e">> }
    THEN Res("", TRUE)
    ELSE IF s \in { <<"0">>, <<"f">>, <<"F">>, <<"F", "A", "L", "S", "E">>,
                    <<"f", "a", "l", "s", "e">>, <<"F", "a", "l", "s", "e">> }
    THEN Res("", FALSE)
    ELSE Res("syntax", FALSE)

\* The base prefix of a base-0 literal: [base, rest].
BasePrefix(s) ==
    IF s[1] = "0"
    THEN IF Len(s) >= 3 /\ lower(s[2]) = "b" THEN [base |-> 2, rest |-> Drop(s, 2)]
         ELSE IF Len(s) >= 3 /\ lower(s[2]) = "o" THEN [base |-> 8, rest |-> Drop(s, 2)]
         ELSE IF Len(s) >= 3 /\ lower(s[2]) = "x" THEN [base |-> 16, rest |-> Drop(s, 2)]
         ELSE [base |-> 8, rest |-> Drop(s, 1)]
    ELSE [base |-> 10, rest |-> s]

DigitOf(c) ==
    IF IsDigit(c) THEN IndexIn(c, DigitChars) - 1
    ELSE IndexIn(lower(c), LowerChars) + 9

RECURSIVE underscoreScan(_, _, _, _)
underscoreScan(s, i, saw, hex) ==
    IF i > Len(s) THEN saw # "_"
    ELSE IF IsDigit(s[i]) \/ (hex /\ InSeq(lower(s[i]), SubSeq(LowerChars, 1, 6)))
         THEN underscoreScan(s, i + 1, "0", hex)
    ELSE IF s[i] = "_"
         THEN saw = "0" /\ underscoreScan(s, i + 1, "_", hex)
    ELSE saw # "_" /\ underscoreScan(s, i + 1, "!", hex)

\* strconv.underscoreOK: underscores only separate digits or follow a base prefix.
underscoreOK(s0) ==
    LET s == IF Len(s0) >= 1 /\ s0[1] \in {"-", "+"} THEN Drop(s0, 1) ELSE s0
        pre0 == Len(s) >= 1 /\ s[1] = "0"
        pre2 == Len(s) >= 2 /\ pre0 /\ lower(s[2]) \in {"b", "o", "x"}
        hex == pre2 /\ lower(s[2]) = "x"
    IN  underscoreScan(s, IF pre2 THEN 3 ELSE IF pre0 THEN 2 ELSE 1,
                       IF pre0 THEN "0" ELSE "^", hex)

RECURSIVE uintDigits(_, _, _, _)
\* ParseUint's digit loop: n is the number so far, maxVal is 1<<bitSize - 1; the
\* result is [err, v].  A number that passes maxVal ends the loop at once.
uintDigits(s, base, n, maxVal) ==
    IF s = <<>> THEN Res("", n)
    ELSE IF s[1] = "_" THEN uintDigits(Tail(s), base, n, maxVal)
    ELSE IF ~(IsDigit(s[1]) \/ IsLetter(s[1])) THEN Res("syntax", <<>>)
    ELSE IF DigitOf(s[1]) >= base THEN Res("syntax", <<>>)
    ELSE LET n1 == MulAdd(n, base, DigitOf(s[1]))
         IN  IF DigitsLess(maxVal, n1) THEN Res("range", maxVal)
             ELSE uintDigits(Tail(s), base, n1, maxVal)

\* if bitSize == 0 { bitSize = IntSize }, on a 64-bit platform.
sizeOr(bitSize) == IF bitSize = 0 THEN 64 ELSE bitSize

\* strconv.ParseUint(s, 0, bitSize): [err, v], v the digits of the number.
ParseUint(s, bitSize) ==
    IF s = <<>> THEN Res("syntax", <<>>)
    ELSE LET digits(bp) == uintDigits(bp.rest, bp.base, <<>>, Pred(Pow2Digits(sizeOr(bitSize))))
             checked(r) == IF r.err = "" /\ InSeq("_", s) /\ ~underscoreOK(s)
                           THEN Res("syntax", <<>>)
                           ELSE r
         IN  checked(digits(BasePrefix(s)))

\* strconv.ParseInt(s, 0, bitSize): the sign is taken off, the rest is read by
\* ParseUint at the same bitSize, and an error of ParseUint other than a range
\* error is returned as it is.  The result is [err, v], v being [neg, mag].
ParseInt(s, bitSize) ==
    IF s = <<>> THEN Res("syntax", SInt(FALSE, <<>>))
    ELSE LET neg == s[1] = "-"
             body == IF s[1] \in {"+", "-"} THEN Tail(s) ELSE s
             cutoff == Pow2Digits(sizeOr(bitSize) - 1)
             signed(un) ==
                 IF un.err = "syntax" THEN Res("syntax", SInt(FALSE, <<>>))
                 ELSE IF ~neg /\ ~DigitsLess(un.v, cutoff) THEN Res("range", SInt(FALSE, Pred(cutoff)))
                 ELSE IF neg /\ DigitsLess(cutoff, un.v) THEN Res("range", SInt(TRUE, cutoff))
                 ELSE Res("", SInt(neg, un.v))
         IN  signed(ParseUint(body, bitSize))

\* parse.go.  The integer the conversion int(v), intN(v), uint(v), uintN(v)
\* gives is v itself: the parser has kept it within the size.
narrow(r) == Res(r.err, IntOf(r.v))
unsigned(r) == Res(r.err, SInt(FALSE, r.v))
parseInt(s) == ParseInt(s, 0)
parseInt8(s) == narrow(ParseInt(s, 8))
parseInt16(s) == ParseInt(s, 16)
parseInt32(s) == ParseInt(s, 32)
parseInt64(s) == ParseInt(s, 64)
parseUint(s) == unsigned(ParseUint(s, 0))
parseUint8(s) == narrow(unsigned(ParseUint(s, 8)))
parseUint16(s) == unsigned(ParseUint(s, 16))
parseUint32(s) == unsigned(ParseUint(s, 32))
parseUint64(s) == unsigned(ParseUint(s, 64))

(***************************************************************************)
(* Helpers of the conversions of floats.                                   *)
(***************************************************************************)
Larger(a, b) == IF a > b THEN a ELSE b
Smaller(a, b) == IF a < b THEN a ELSE b
ZeroDigits(n) == [i \in 1..n |-> 0]

RECURSIVE smallPow(_, _)
\* b^k, a small number
smallPow(b, k) == IF k = 0 THEN 1 ELSE b * smallPow(b, k - 1)

(***************************************************************************)
(* Numbers of any size, for the conversions of floats: limbs of four       *)
(* decimal digits, the least significant first, with no zero limb at the   *)
(* top (<<>> is 0).  No operator recurses deeper than the logarithm of the *)
(* size of a number.                                                       *)
(***************************************************************************)
limbAt(x, i) == IF i >= 1 /\ i <= Len(x) THEN x[i] ELSE 0

trimLimbs(x) ==
    IF \A i \in 1..Len(x) : x[i] = 0 THEN <<>>
    ELSE SubSeq(x, 1, CHOOSE k \in 1..Len(x) :
                          x[k] # 0 /\ \A i \in (k + 1)..Len(x) : x[i] = 0)

RECURSIVE carryRange(_, _, _, _)
\* The limbs lo..hi of x once the carries are passed on, c being the carry
\* that comes in: [out, c], c the carry that goes out.
carryRange(x, lo, hi, c) ==
    IF lo = hi
    THEN [out |-> <<(x[lo] + c) % 10000>>, c |-> (x[lo] + c) \div 10000]
    ELSE LET join(l, r) == [out |-> l.out \o r.out, c |-> r.c]
             upper(l) == join(l, carryRange(x, ((lo + hi) \div 2) + 1, hi, l.c))
         IN  upper(carryRange(x, lo, (lo + hi) \div 2, c))

carriedOut(r) == trimLimbs(r.out \o <<r.c % 10000, r.c \div 10000>>)
carried(x) == IF x = <<>> THEN <<>> ELSE carriedOut(carryRange(x, 1, Len(x), 0))

\* x * m, m below 200000
LMul(x, m) == carried([i \in 1..Len(x) |-> x[i] * m])
LAdd(x, y) == carried([i \in 1..Larger(Len(x), Len(y)) |-> limbAt(x, i) + limbAt(y, i)])
\* x - y, for x >= y
LSub(x, y) ==
    IF x = <<>> THEN <<>>
    ELSE trimLimbs(carryRange([i \in 1..Len(x) |-> x[i] + 9999 - limbAt(y, i)],
                              1, Len(x), 1).out)
\* x >> 1
LHalf(x) == trimLimbs([i \in 1..Len(x) |-> (x[i] + (limbAt(x, i + 1) % 2) * 10000) \div 2])
\* x * s, s of five limbs at most
LMulLimbs(x, s) ==
    carried([k \in 1..(Len(x) + 4) |->
                limbAt(x, k) * limbAt(s, 1) + limbAt(x, k - 1) * limbAt(s, 2)
                + limbAt(x, k - 2) * limbAt(s, 3) + limbAt(x, k - 3) * limbAt(s, 4)
                + limbAt(x, k - 4) * limbAt(s, 5)])

RECURSIVE topDiff(_, _, _, _)
\* The highest of the limbs lo..hi at which x and y differ; they differ at one.
topDiff(x, y, lo, hi) ==
    IF lo = hi THEN lo
    ELSE IF SubSeq(x, ((lo + hi) \div 2) + 1, hi) = SubSeq(y, ((lo + hi) \div 2) + 1, hi)
         THEN topDiff(x, y, lo, (lo + hi) \div 2)
    ELSE topDiff(x, y, ((lo + hi) \div 2) + 1, hi)

\* x < y
LLess(x, y) ==
    IF Len(x) # Len(y) THEN Len(x) < Len(y)
    ELSE IF x = y THEN FALSE
    ELSE LET less(d) == x[d] < y[d] IN less(topDiff(x, y, 1, Len(x)))

RECURSIVE LMulPow(_, _, _)
\* x * m^k
LMulPow(x, m, k) ==
    IF k = 0 \/ x = <<>> THEN x
    ELSE IF k = 1 THEN LMul(x, m)
    ELSE LMulPow(LMulPow(x, m, k \div 2), m, k - (k \div 2))

\* x << k, and x * 5^k
LShift(x, k) == LMul(LMulPow(x, 8192, k \div 13), smallPow(2, k % 13))
LTimes5(x, k) == LMul(LMulPow(x, 78125, k \div 7), smallPow(5, k % 7))

\* The limbs of the number with the decimal digits d, and back.
LimbsOf(d) ==
    LET dr(r) == IF r <= Len(d) THEN d[Len(d) - r + 1] ELSE 0
    IN  trimLimbs([j \in 1..((Len(d) + 3) \div 4) |->
                      dr(4 * j - 3) + 10 * dr(4 * j - 2) + 100 * dr(4 * j - 1)
                      + 1000 * dr(4 * j)])
LimbDigits(x) ==
    IF x = <<>> THEN 0
    ELSE 4 * (Len(x) - 1)
         + (IF x[Len(x)] >= 1000 THEN 4 ELSE IF x[Len(x)] >= 100 THEN 3
            ELSE IF x[Len(x)] >= 10 THEN 2 ELSE 1)
DigitsOf(x) ==
    [i \in 1..LimbDigits(x) |->
        (x[((LimbDigits(x) - i) \div 4) + 1] \div smallPow(10, (LimbDigits(x) - i) % 4)) % 10]

\* The number of bits of x.
bitLen(x) ==
    IF x = <<>> THEN 0
    ELSE CHOOSE n \in ((((LimbDigits(x) - 1) * 3321) \div 1000) + 1)
                      ..(((LimbDigits(x) * 3322) \div 1000) + 1) :
             LLess(x, LShift(<<1>>, n)) /\ ~LLess(x, LShift(<<1>>, n - 1))

RECURSIVE bitsInt(_, _)
bitsInt(bs, acc) == IF bs = <<>> THEN acc ELSE bitsInt(Tail(bs), 2 * acc + bs[1])

RECURSIVE bitsDigits(_, _)
\* The decimal digits of the number with the bits bs, after those of acc.
bitsDigits(bs, acc) ==
    IF bs = <<>> THEN acc
    ELSE LET n == IF Len(bs) % 13 = 0 THEN 13 ELSE Len(bs) % 13
         IN  bitsDigits(Drop(bs, n), MulAdd(acc, smallPow(2, n), bitsInt(SubSeq(bs, 1, n), 0)))

\* bs + 1
incBits(bs) ==
    IF \A i \in 1..Len(bs) : bs[i] = 1 THEN <<1>> \o ZeroDigits(Len(bs))
    ELSE LET inc(z) == [i \in 1..Len(bs) |-> IF i < z THEN bs[i] ELSE IF i = z THEN 1 ELSE 0]
         IN  inc(CHOOSE i \in 1..Len(bs) : bs[i] = 0 /\ \A j \in (i + 1)..Len(bs) : bs[j] = 1)

RECURSIVE divStep(_, _, _, _)
\* k more bits of a quotient, the most significant first: r is what is left
\* of the dividend, t the divisor at the place of the next bit, acc the bits
\* so far.  The result is [r, t, acc].
divStep(r, t, acc, k) ==
    IF k = 0 THEN [r |-> r, t |-> t, acc |-> acc]
    ELSE IF LLess(r, t) THEN divStep(r, LHalf(t), Append(acc, 0), k - 1)
    ELSE divStep(LSub(r, t), LHalf(t), Append(acc, 1), k - 1)

RECURSIVE divFrom(_)
\* The bits are found eight at a time.
divFrom(c) ==
    IF Len(c.acc) = 64 THEN [bits |-> c.acc, rem |-> c.r # <<>>]
    ELSE divFrom(divStep(c.r, c.t, c.acc, 8))

\* The 64 bits of a quotient: [bits, rem], rem telling that a remainder is left.
divBits(r, t, acc) == divFrom([r |-> r, t |-> t, acc |-> acc])

\* The float of the size with the sign neg whose mantissa has the bits m1,
\* the last of them at the exponent et: [err, v].  A number past the largest
\* float is the infinity with a range error.
floatOfBits(neg, m1, et, bitSize) ==
    IF m1 = <<>> THEN Res("", FFin(neg, <<>>, 0))
    ELSE IF Len(m1) + et > mantBits(bitSize) + maxExp(bitSize)
         THEN Res("range", FInf(neg))
    ELSE Res("", FFin(neg,
                      bitsDigits(SubSeq(m1, 1, CHOOSE u \in 1..Len(m1) :
                                                  m1[u] = 1 /\ \A j \in (u + 1)..Len(m1) : m1[j] = 0),
                                 <<>>),
                      et + Len(m1)
                         - (CHOOSE u \in 1..Len(m1) :
                                m1[u] = 1 /\ \A j \in (u + 1)..Len(m1) : m1[j] = 0)))

\* The bits kept of q.bits, which end at cutAt, rounded to the nearest, to the
\* even one of two that are as near.
roundedBits(q, kept, cutAt) ==
    IF q.bits[cutAt + 1] = 1
       /\ (q.rem \/ (\E i \in (cutAt + 2)..64 : q.bits[i] = 1)
           \/ (kept # <<>> /\ kept[Len(kept)] = 1))
    THEN incBits(kept) ELSE kept

\* The bits of q.bits from top on are cut at the exponent et.
cutBits(neg, q, e0, top, et, bitSize) ==
    floatOfBits(neg, roundedBits(q, SubSeq(q.bits, top, 64 - (et - e0)), 64 - (et - e0)),
                et, bitSize)

\* The float of the size with the sign neg whose magnitude is the number
\* q.bits * 2^e0 (and more, when q.rem) rounded to the nearest mantissa:
\* [err, v].  A number too small is zero.
roundedFrom(neg, q, e0, top, bitSize) ==
    cutBits(neg, q, e0, top,
            Larger(64 - top + e0 - (mantBits(bitSize) - 1), minExp(bitSize)), bitSize)

rounded(neg, q, e0, bitSize) ==
    IF \A i \in 1..64 : q.bits[i] = 0 THEN Res("", FFin(neg, <<>>, 0))
    ELSE roundedFrom(neg, q, e0,
                     CHOOSE i \in 1..64 : q.bits[i] = 1 /\ \A j \in 1..(i - 1) : q.bits[j] = 0,
                     bitSize)

\* The whole part of the logarithm to the base 2 of 10^a, or less.
log2Pow10(a) == IF a >= 0 THEN (a * 3321) \div 1000
                ELSE 0 - ((((0 - a) * 3322) + 999) \div 1000)

\* The quotient of num * 2^y by den, taken at the exponent e0, rounded.
ratioAt(neg, num, den, y, e0, bitSize) ==
    rounded(neg,
            divBits(IF y - e0 >= 0 THEN LShift(num, y - e0) ELSE num,
                    LShift(den, 63 + (IF y - e0 >= 0 THEN 0 ELSE e0 - y)), <<>>),
            e0, bitSize)

\* The float nearest to num / den * 2^y, num and den the limbs of positive
\* numbers.  The quotient is taken at an exponent e0 that leaves it two bits
\* or more past the mantissa, and fewer than 64 bits in all: 10^a is below
\* num / den, and 10^(a + 2) above.
roundRatio(neg, num, den, y, bitSize) ==
    ratioAt(neg, num, den, y,
            Larger(log2Pow10(LimbDigits(num) - LimbDigits(den) - 1) + y - mantBits(bitSize) - 1,
                   minExp(bitSize) - 2),
            bitSize)

(***************************************************************************)
(* strconv.ParseFloat (atof.go).                                           *)
(***************************************************************************)
\* commonPrefixLenIgnoreCase: prefix is in lower case.
commonPrefixLenIgnoreCase(s, prefix) ==
    LET same(i) == lower(s[i]) = prefix[i]
        n == Smaller(Len(s), Len(prefix))
    IN  IF \A i \in 1..n : same(i) THEN n
        ELSE (CHOOSE i \in 1..n : ~same(i) /\ \A j \in 1..(i - 1) : same(j)) - 1

\* No infinity and no NaN.
noSpecial == [ok |-> FALSE, f |-> FZero, n |-> 0]

\* An infinity whose letters are n, after a sign or not.
infinityOf(s, n, signed) ==
    IF n < 3 THEN noSpecial
    ELSE [ok |-> TRUE, f |-> FInf(s[1] = "-"),
          n |-> (IF n < 8 THEN 3 ELSE 8) + (IF signed THEN 1 ELSE 0)]

\* special: an infinity or a NaN at the start of s: [ok, f, n], n the
\* characters it takes.
special(s) ==
    IF s = <<>> THEN noSpecial
    ELSE IF s[1] \in {"+", "-", "i", "I"}
         THEN infinityOf(s, commonPrefixLenIgnoreCase(IF s[1] \in {"+", "-"} THEN Tail(s) ELSE s,
                                                      <<"i", "n", "f", "i", "n", "i", "t", "y">>),
                         s[1] \in {"+", "-"})
    ELSE IF s[1] \in {"n", "N"} /\ commonPrefixLenIgnoreCase(s, <<"n", "a", "n">>) = 3
         THEN [ok |-> TRUE, f |-> FNaN, n |-> 3]
    ELSE noSpecial

RECURSIVE mantissaDigits(_, _, _)
\* The loop of readFloat over the digits and the point, from position i:
\* st is [hex, sawdot, sawdigits, dp, digs, us, i].  digs are the digits from
\* the first that is not zero on, all of them: the conversion is correctly
\* rounded whatever their number (the mantissa of 19 digits and its trunc
\* flag, then the decimal of the slow path).
mantissaDigits(s, i, st) ==
    IF i > Len(s) THEN [st EXCEPT !.i = i]
    ELSE IF s[i] = "_" THEN mantissaDigits(s, i + 1, [st EXCEPT !.us = TRUE])
    ELSE IF s[i] = "."
         THEN IF st.sawdot THEN [st EXCEPT !.i = i]
              ELSE mantissaDigits(s, i + 1, [st EXCEPT !.sawdot = TRUE, !.dp = Len(st.digs)])
    ELSE IF IsDigit(s[i])
         THEN IF s[i] = "0" /\ st.digs = <<>>
              THEN mantissaDigits(s, i + 1, [st EXCEPT !.sawdigits = TRUE, !.dp = @ - 1])
              ELSE mantissaDigits(s, i + 1, [st EXCEPT !.sawdigits = TRUE,
                                                        !.digs = Append(@, DigitOf(s[i]))])
    ELSE IF st.hex /\ InSeq(lower(s[i]), SubSeq(LowerChars, 1, 6))
         THEN mantissaDigits(s, i + 1, [st EXCEPT !.sawdigits = TRUE,
                                                   !.digs = Append(@, DigitOf(s[i]))])
    ELSE [st EXCEPT !.i = i]

RECURSIVE exponentDigits(_, _, _)
\* The loop of readFloat over the digits of the exponent: st is [e, us, i].
exponentDigits(s, i, st) ==
    IF i <= Len(s) /\ s[i] = "_" THEN exponentDigits(s, i + 1, [st EXCEPT !.us = TRUE])
    ELSE IF i <= Len(s) /\ IsDigit(s[i])
         THEN exponentDigits(s, i + 1,
                             [st EXCEPT !.e = IF @ < 10000 THEN @ * 10 + DigitOf(s[i]) ELSE @])
    ELSE [st EXCEPT !.i = i]

\* No number.
noFloat == [ok |-> FALSE, n |-> 0, neg |-> FALSE, hex |-> FALSE, digs |-> <<>>, dp |-> 0]

\* The number read, which ends before the position end; us tells that it has
\* underscores.
floatRead(s, hex, m, dp, us, end) ==
    IF us /\ ~underscoreOK(SubSeq(s, 1, end - 1)) THEN noFloat
    ELSE [ok |-> TRUE, n |-> end - 1, neg |-> s[1] = "-", hex |-> hex,
          digs |-> m.digs, dp |-> dp]

\* The point is moved by the exponent x, which has the sign esign.
floatMoved(s, hex, m, dp, esign, x) == floatRead(s, hex, m, dp + x.e * esign, x.us, x.i)

\* The digits of the exponent are to start at j.
floatExponent(s, hex, m, dp, j) ==
    IF j > Len(s) \/ ~IsDigit(s[j]) THEN noFloat
    ELSE floatMoved(s, hex, m, dp, IF s[j - 1] = "-" THEN -1 ELSE 1,
                    exponentDigits(s, j, [e |-> 0, us |-> m.us, i |-> j]))

\* What follows the mantissa m: an exponent, which a hexadecimal number must have.
floatAfter(s, hex, m, dp) ==
    IF m.i <= Len(s) /\ lower(s[m.i]) = (IF hex THEN "p" ELSE "e")
    THEN IF m.i + 1 > Len(s) THEN noFloat
         ELSE floatExponent(s, hex, m, dp,
                            IF s[m.i + 1] \in {"+", "-"} THEN m.i + 2 ELSE m.i + 1)
    ELSE IF hex THEN noFloat
    ELSE floatRead(s, hex, m, dp, m.us, m.i)

floatDigits(s, hex, m) ==
    IF ~m.sawdigits THEN noFloat
    ELSE floatAfter(s, hex, m, (IF m.sawdot THEN m.dp ELSE Len(m.digs)) * (IF hex THEN 4 ELSE 1))

\* The number of s, whose digits start at i0.
floatFrom(s, i0, hex) ==
    floatDigits(s, hex,
                mantissaDigits(s, IF hex THEN i0 + 2 ELSE i0,
                               [hex |-> hex, sawdot |-> FALSE, sawdigits |-> FALSE,
                                dp |-> 0, digs |-> <<>>, us |-> FALSE, i |-> 0]))

floatSigned(s, i0) ==
    floatFrom(s, i0, i0 + 2 <= Len(s) /\ s[i0] = "0" /\ lower(s[i0 + 1]) = "x")

\* readFloat: the number at the start of s: [ok, n, neg, hex, digs, dp], n the
\* characters it takes; the number is 0.digs * 10^dp, or 0.digs * 2^dp with
\* hexadecimal digits.
readFloat(s) ==
    IF s = <<>> THEN noFloat
    ELSE floatSigned(s, IF s[1] \in {"+", "-"} THEN 2 ELSE 1)

RECURSIVE hexLimbs(_, _)
\* The limbs of the number with the hexadecimal digits ds, after those of acc.
hexLimbs(ds, acc) ==
    IF ds = <<>> THEN acc
    ELSE hexLimbs(Tail(ds), LAdd(LMul(acc, 16), IF ds[1] = 0 THEN <<>> ELSE <<ds[1]>>))

\* The float of the size that the number read stands for: [err, v].  A decimal
\* number of 10^310 or more is past every float and one below 10^-330 is
\* below half of the smallest, and so with the powers of two.  Any other is
\* the quotient of two whole numbers, times a power of two when hexadecimal.
floatOf(r, bitSize) ==
    IF r.digs = <<>> THEN Res("", FFin(r.neg, <<>>, 0))
    ELSE IF (r.hex /\ r.dp - 4 >= 1025) \/ (~r.hex /\ r.dp > 310)
         THEN Res("range", FInf(r.neg))
    ELSE IF (r.hex /\ r.dp <= -1076) \/ (~r.hex /\ r.dp < -330)
         THEN Res("", FFin(r.neg, <<>>, 0))
    ELSE roundRatio(r.neg,
                    IF r.hex THEN hexLimbs(r.digs, <<>>)
                    ELSE LimbsOf(r.digs \o ZeroDigits(Larger(r.dp - Len(r.digs), 0))),
                    IF r.hex \/ r.dp >= Len(r.digs) THEN <<1>>
                    ELSE LimbsOf(<<1>> \o ZeroDigits(Len(r.digs) - r.dp)),
                    IF r.hex THEN r.dp - 4 * Len(r.digs) ELSE 0,
                    bitSize)

\* The float of the number r that was read: [f, n, err].
atofNumber(r, v) == [f |-> v.v, n |-> r.n, err |-> v.err]
atofRead(r, bitSize) ==
    IF ~r.ok THEN [f |-> FZero, n |-> 0, err |-> "syntax"]
    ELSE atofNumber(r, floatOf(r, bitSize))
atofSpecial(s, sp, bitSize) ==
    IF sp.ok THEN [f |-> sp.f, n |-> sp.n, err |-> ""]
    ELSE atofRead(readFloat(s), bitSize)

\* atof32, atof64 (parseFloatPrefix): the float at the start of s: [f, n, err].
atof(s, bitSize) == atofSpecial(s, special(s), bitSize)

\* The whole text is to be the number.
wholeText(s, r) ==
    IF r.n # Len(s) /\ r.err # "syntax" THEN Res("syntax", FZero) ELSE Res(r.err, r.f)

\* strconv.ParseFloat(s, bitSize): [err, v]
ParseFloat(s, bitSize) == wholeText(s, atof(s, bitSize))

(***************************************************************************)
(* strconv.FormatFloat with the precision -1 (ftoa.go): the shortest       *)
(* decimal digits that read back as the float.                             *)
(***************************************************************************)
incDigits(d) ==
    IF \A i \in 1..Len(d) : d[i] = 9 THEN <<1>> \o ZeroDigits(Len(d))
    ELSE LET inc(z) == [i \in 1..Len(d) |-> IF i < z THEN d[i] ELSE IF i = z THEN d[i] + 1 ELSE 0]
         IN  inc(CHOOSE i \in 1..Len(d) : d[i] # 9 /\ \A j \in (i + 1)..Len(d) : d[j] = 9)

\* The digits of X after the k-th are zeros.
zeroAfter(X, k) == \A i \in (k + 1)..Len(X) : X[i] = 0

\* roundShortest: V is the number, L and U the numbers half way to the floats
\* next to it, as digits of the same length; n digits are kept when cutting V
\* there (down) or adding one to what is kept (up) stays between L and U, and
\* at them when incl.
okDown(V, L, incl, n) == SubSeq(V, 1, n) # SubSeq(L, 1, n) \/ (incl /\ zeroAfter(L, n))
okUp(V, U, incl, n) ==
    SubSeq(V, 1, n) # SubSeq(U, 1, n)
    /\ (incDigits(SubSeq(V, 1, n)) # SubSeq(U, 1, n) \/ incl \/ ~zeroAfter(U, n))

\* Of the two that do, the nearer to V, else the even one.  The result is
\* [d, n], d the n digits.
shortestPick(V, n, down, up, okdown, okup) ==
    [d |-> IF okdown /\ okup
           THEN IF n < Len(V)
                   /\ (V[n + 1] > 5
                       \/ (V[n + 1] = 5 /\ (~zeroAfter(V, n + 1) \/ down[n] % 2 = 1)))
                THEN up ELSE down
           ELSE IF okdown THEN down ELSE up,
     n |-> n]

shortestOfLen(V, L, U, incl, n) ==
    shortestPick(V, n, SubSeq(V, 1, n), incDigits(SubSeq(V, 1, n)),
                 okDown(V, L, incl, n), okUp(V, U, incl, n))

\* The digits are as few as do.
shortestAt(V, L, U, incl) ==
    shortestOfLen(V, L, U, incl,
                  CHOOSE n \in 1..Len(V) :
                      /\ okDown(V, L, incl, n) \/ okUp(V, U, incl, n)
                      /\ \A m \in 1..(n - 1) : ~okDown(V, L, incl, m) /\ ~okUp(V, U, incl, m))

\* The digits d without the zeros at their start and at their end.
significant(d) ==
    LET from == CHOOSE i \in 1..Len(d) : d[i] # 0 /\ \A j \in 1..(i - 1) : d[j] = 0
        upto == CHOOSE i \in 1..Len(d) : d[i] # 0 /\ \A j \in (i + 1)..Len(d) : d[j] = 0
    IN  SubSeq(d, from, upto)
leadingZeros(d) == (CHOOSE i \in 1..Len(d) : d[i] # 0 /\ \A j \in 1..(i - 1) : d[j] = 0) - 1

\* The digits X with zeros before them, W digits in all.
padDigits(X, W) == ZeroDigits(W - Len(X)) \o X

\* The digits r of a number of len digits whose point is moved by sc.
shortestDigits(r, len, sc) ==
    [d |-> significant(r.d), dp |-> (r.n - leadingZeros(r.d)) + (len - r.n) + sc]

\* The shortest digits between the numbers n[2] and n[3] for the number n[1].
shortestOf(n, incl, sc) ==
    shortestDigits(shortestAt(padDigits(n[1], Len(n[3])), padDigits(n[2], Len(n[3])), n[3],
                              incl),
                   Len(n[3]), sc)

\* The number vs * pw and the two numbers half way to the floats next to it.
shortestScaled(vs, pw, pow2, incl, sc) ==
    shortestOf([i \in 1..3 |->
                   DigitsOf(LMulLimbs(pw, IF i = 1 THEN vs
                                          ELSE IF i = 2
                                               THEN LSub(vs, IF pow2 THEN <<1>> ELSE <<2>>)
                                          ELSE LAdd(vs, <<2>>)))],
               incl, sc)

\* The shortest digits of the float f with the mantissa m, the unit in its
\* last place being at the exponent et.
shortestUnit(f, m, et, bitSize) ==
    shortestScaled(LShift(m, f.exp - et + 2),
                   IF et - 2 >= 0 THEN LShift(<<1>>, et - 2) ELSE LTimes5(<<1>>, 2 - et),
                   f.mant = <<1>> /\ f.exp - et = mantBits(bitSize) - 1 /\ et > minExp(bitSize),
                   f.exp > et,
                   IF et - 2 >= 0 THEN 0 ELSE et - 2)

shortestLimbs(f, m, bitSize) ==
    shortestUnit(f, m, Larger(f.exp + bitLen(m) - mantBits(bitSize), minExp(bitSize)), bitSize)

\* The shortest digits of a float that is not zero: [d, dp], the number
\* being 0.d * 10^dp.  With et the exponent of the unit in the last place,
\* the number and the two half-way numbers are whole multiples of 2^(et-2):
\* vs, vs + 2 and vs - 2, or vs - 1 below a power of two; pw is 2^(et-2), or
\* 5^(2-et) with the decimal point moved by et - 2.
shortest(f, bitSize) == shortestLimbs(f, LimbsOf(f.mant), bitSize)

\* The digits of an exponent, two at least.
expDigits(n) ==
    (IF n < 10 THEN <<"0">> ELSE <<>>)
    \o (IF n = 0 THEN <<"0">> ELSE [i \in 1..Len(NatDigits(n)) |-> DigitChars[NatDigits(n)[i] + 1]])

\* %e
fmtE(neg, d, dp) ==
    (IF neg THEN <<"-">> ELSE <<>>)
    \o <<IF d = <<>> THEN "0" ELSE DigitChars[d[1] + 1]>>
    \o (IF Len(d) > 1 THEN <<".">> \o [i \in 1..(Len(d) - 1) |-> DigitChars[d[i + 1] + 1]]
        ELSE <<>>)
    \o <<"e", IF d # <<>> /\ dp - 1 < 0 THEN "-" ELSE "+">>
    \o expDigits(IF d = <<>> THEN 0 ELSE IF dp - 1 < 0 THEN 1 - dp ELSE dp - 1)

\* %f
fmtF(neg, d, dp) ==
    LET digit(j) == IF j >= 1 /\ j <= Len(d) THEN DigitChars[d[j] + 1] ELSE "0"
    IN  (IF neg THEN <<"-">> ELSE <<>>)
        \o (IF dp > 0 THEN [m \in 1..dp |-> digit(m)] ELSE <<"0">>)
        \o (IF Len(d) > dp THEN <<".">> \o [i \in 1..(Len(d) - dp) |-> digit(dp + i)]
            ELSE <<>>)

\* The digits g in the format.
fmtDigits(neg, g, fmt) ==
    IF fmt = "e" \/ (fmt = "g" /\ (g.dp - 1 < -4 \/ g.dp - 1 >= 6))
    THEN fmtE(neg, g.d, g.dp)
    ELSE fmtF(neg, g.d, g.dp)

\* strconv.FormatFloat(f, fmt, -1, bitSize), fmt being "e", "f" or "g".  %e is
\* used for "g" when the exponent is less than -4 or not less than the
\* precision, which is 6 for this with the shortest digits.
FormatFloat(f, fmt, bitSize) ==
    IF f.cls = "nan" THEN <<"N", "a", "N">>
    ELSE IF f.cls = "inf" THEN <<IF f.neg THEN "-" ELSE "+", "I", "n", "f">>
    ELSE fmtDigits(f.neg,
                   IF f.mant = <<>> THEN [d |-> <<>>, dp |-> 0] ELSE shortest(f, bitSize),
                   fmt)

(***************************************************************************)
(* strconv.ParseComplex and strconv.FormatComplex (atoc.go, ctoa.go).      *)
(***************************************************************************)
\* The imaginary part im was read at the start of rest, after the real part re.
complexBoth(re, im, rest) ==
    IF im.err = "syntax" THEN Res("syntax", CZero)
    ELSE IF Drop(rest, im.n) # <<"i">> THEN Res("syntax", CZero)
    ELSE Res(IF im.err # "" THEN im.err ELSE re.err, [re |-> re.f, im |-> im.f])

complexImag(re, rest, size) == complexBoth(re, atof(rest, size), rest)

\* What follows the first number: nothing, an i, or a sign and the imaginary
\* part; a plus sign is left to the number when another plus sign follows.
complexSecond(re, rest, size) ==
    IF rest = <<>> THEN Res(re.err, [re |-> re.f, im |-> FZero])
    ELSE IF rest = <<"i">> THEN Res(re.err, [re |-> FZero, im |-> re.f])
    ELSE IF rest[1] \notin {"+", "-"} THEN Res("syntax", CZero)
    ELSE complexImag(re, IF rest[1] = "+" /\ Len(rest) > 1 /\ rest[2] # "+"
                         THEN Tail(rest) ELSE rest, size)

complexFirst(body, re, size) ==
    IF re.err = "syntax" THEN Res("syntax", CZero)
    ELSE complexSecond(re, Drop(body, re.n), size)

\* The text without the parentheses around it.
complexBody(s, size) == complexFirst(s, atof(s, size), size)

\* strconv.ParseComplex(s, bitSize): [err, v].  A range error of a part is
\* kept pending and returned with the number.
ParseComplex(s, bitSize) ==
    complexBody(IF Len(s) >= 2 /\ s[1] = "(" /\ s[Len(s)] = ")"
                THEN SubSeq(s, 2, Len(s) - 1) ELSE s,
                IF bitSize = 64 THEN 32 ELSE 64)

\* The two parts with the sign of the second between them.
complexJoined(p) ==
    <<"(">> \o p[1] \o (IF p[2][1] \in {"+", "-"} THEN <<>> ELSE <<"+">>) \o p[2] \o <<"i", ")">>

\* strconv.FormatComplex(c, 'g', -1, bitSize)
FormatComplex(c, bitSize) ==
    complexJoined([i \in 1..2 |-> FormatFloat(IF i = 1 THEN c.re ELSE c.im, "g", bitSize \div 2)])

\* parse.go.  float32(v) of what ParseFloat(s, 32) returns is v itself, and so
\* is complex64(v) of what ParseComplex(s, 64) returns.
parseFloat32(s) == ParseFloat(s, 32)
parseFloat64(s) == ParseFloat(s, 64)
parseComplex64(s) == ParseComplex(s, 64)
parseComplex128(s) == ParseComplex(s, 128)

(***************************************************************************)
(* encoding/base64: StdEncoding.DecodeString.                              *)
(***************************************************************************)
B64Chars == UpperChars \o LowerChars \o DigitChars \o <<"+", "/">>
B64(c) == IndexIn(c, B64Chars) - 1
IsB64(c) == InSeq(c, B64Chars)
VByte(n) == VInt("uint8", n)

\* One quantum of four characters: [ok, b] with b the bytes it holds.
B64Quantum(q, isLast) ==
    IF IsB64(q[1]) /\ IsB64(q[2]) /\ IsB64(q[3]) /\ IsB64(q[4])
    THEN [ok |-> TRUE,
          b |-> << VByte(B64(q[1]) * 4 + B64(q[2]) \div 16),
                   VByte((B64(q[2]) % 16) * 16 + B64(q[3]) \div 4),
                   VByte((B64(q[3]) % 4) * 64 + B64(q[4])) >>]
    ELSE IF isLast /\ IsB64(q[1]) /\ IsB64(q[2]) /\ IsB64(q[3]) /\ q[4] = "="
    THEN [ok |-> TRUE,
          b |-> << VByte(B64(q[1]) * 4 + B64(q[2]) \div 16),
                   VByte((B64(q[2]) % 16) * 16 + B64(q[3]) \div 4) >>]
    ELSE IF isLast /\ IsB64(q[1]) /\ IsB64(q[2]) /\ q[3] = "=" /\ q[4] = "="
    THEN [ok |-> TRUE, b |-> << VByte(B64(q[1]) * 4 + B64(q[2]) \div 16) >>]
    ELSE [ok |-> FALSE, b |-> <<>>]

RECURSIVE b64Decode(_, _)
b64Decode(s, acc) ==
    IF s = <<>> THEN Res("", acc)
    ELSE IF Len(s) < 4 THEN Res("illegal base64 data", <<>>)
    ELSE LET next(q) == IF q.ok THEN b64Decode(Drop(s, 4), acc \o q.b)
                         ELSE Res("illegal base64 data", <<>>)
         IN  next(B64Quantum(SubSeq(s, 1, 4), Len(s) = 4))

\* base64.StdEncoding.DecodeString: [err, v] with v the bytes.  Carriage
\* returns and line feeds are passed over wherever they stand.
Base64Decode(s) == b64Decode(SelectSeq(s, LAMBDA c : c \notin {"\r", "\n"}), <<>>)

(***************************************************************************)
(* encoding/json: the syntax of a document (scanner.go) and the values its *)
(* strings and numbers stand for (decode.go).  A parsed document is a tree:*)
(*   [j |-> "null"], [j |-> "bool", b], [j |-> "str", s],                  *)
(*   [j |-> "num", neg, whole, n],                                         *)
(*   [j |-> "arr", e], [j |-> "obj", kv] with kv a sequence of [key, val]. *)
(* A number keeps its sign, whether it is written without fraction and     *)
(* exponent, and then its magnitude n (1<<16 standing for that or more).   *)
(* A failure carries the kind of the SyntaxError.                          *)
(***************************************************************************)
JNull == [j |-> "null"]
InvalidCharacter == "invalid character"
UnexpectedEnd == "unexpected end of JSON input"
JFail(e) == [ok |-> FALSE, v |-> JNull, i |-> 0, err |-> e]
JOk(v, i) == [ok |-> TRUE, v |-> v, i |-> i, err |-> ""]

\* scanner.go isSpace
isSpace(c) == c \in {" ", "\t", "\r", "\n"}

RECURSIVE skipSpace(_, _)
\* The first position from i on that holds no white space.
skipSpace(s, i) == IF i <= Len(s) /\ isSpace(s[i]) THEN skipSpace(s, i + 1) ELSE i

IsHex(c) == IsDigit(c) \/ InSeq(lower(c), <<"a", "b", "c", "d", "e", "f">>)

\* decode.go getu4: the number of the escape \uXXXX at position i, or -1.
getu4(s, i) ==
    IF i + 5 <= Len(s) /\ s[i] = "\\" /\ s[i + 1] = "u"
       /\ \A k \in (i + 2)..(i + 5) : IsHex(s[k])
    THEN DigitOf(s[i + 2]) * 4096 + DigitOf(s[i + 3]) * 256
         + DigitOf(s[i + 4]) * 16 + DigitOf(s[i + 5])
    ELSE -1

\* The rune a one-letter escape stands for; "" when the letter is no escape.
escapeRune(c) ==
    CASE c \in {"\"", "\\", "/"} -> c
      [] c = "b" -> RuneOf(8)
      [] c = "f" -> "\f"
      [] c = "n" -> "\n"
      [] c = "r" -> "\r"
      [] c = "t" -> "\t"
      [] OTHER -> ""

\* A control character, which a string may hold only escaped.
IsControl(c) == c \in {"\t", "\n", "\f", "\r"} \/ (Len(c) > 1 /\ CodePoint(c) < 32)

RECURSIVE jsonString(_, _, _)
\* The string whose content starts at i (scanner.go stateInString and the
\* states of its escapes), unquoted as decode.go unquote does: acc is the
\* content read so far.
jsonString(s, i, acc) ==
    IF i > Len(s) THEN JFail(UnexpectedEnd)
    ELSE IF s[i] = "\"" THEN JOk([j |-> "str", s |-> acc], i + 1)
    ELSE IF s[i] = "\\"
         THEN IF i + 1 > Len(s) THEN JFail(InvalidCharacter)
              ELSE IF s[i + 1] = "u"
                   THEN LET low(rr, rr1) == rr \in 55296..56319 /\ rr1 \in 56320..57343
                            u(rr, rr1) ==
                                IF rr = -1 THEN JFail(InvalidCharacter)
                                ELSE IF rr \notin 55296..57343
                                     THEN jsonString(s, i + 6, Append(acc, RuneOf(rr)))
                                ELSE IF low(rr, rr1)
                                     THEN jsonString(s, i + 12,
                                              Append(acc, RuneOf(65536 + (rr - 55296) * 1024
                                                                 + (rr1 - 56320))))
                                ELSE jsonString(s, i + 6, Append(acc, "U+FFFD"))
                        IN  u(getu4(s, i), getu4(s, i + 6))
                   ELSE IF escapeRune(s[i + 1]) = "" THEN JFail(InvalidCharacter)
                   ELSE jsonString(s, i + 2, Append(acc, escapeRune(s[i + 1])))
    ELSE IF IsControl(s[i]) THEN JFail(InvalidCharacter)
    ELSE jsonString(s, i + 1, Append(acc, s[i]))

RECURSIVE jsonDigitsEnd(_, _)
jsonDigitsEnd(s, i) == IF i <= Len(s) /\ IsDigit(s[i]) THEN jsonDigitsEnd(s, i + 1) ELSE i

\* The number the digits s of a JSON number spell: "0", or digits that start with 1-9.
digitsValue(s) == IF s = <<"0">> THEN <<>> ELSE [i \in 1..Len(s) |-> DigitOf(s[i])]

\* The number that starts at i (scanner.go stateNeg to stateE0): an optional
\* minus, 0 or digits that start with 1-9, an optional fraction, an optional
\* exponent.  A digit that is missing is an invalid character, at the end too.
jsonNumber(s, i) ==
    LET neg == s[i] = "-"
        d == IF neg THEN i + 1 ELSE i
        atDigit(k) == k <= Len(s) /\ IsDigit(s[k])
        intEnd == IF atDigit(d) /\ s[d] = "0" THEN d + 1 ELSE jsonDigitsEnd(s, d)
        hasFrac == intEnd <= Len(s) /\ s[intEnd] = "."
        fracEnd == IF hasFrac THEN jsonDigitsEnd(s, intEnd + 1) ELSE intEnd
        hasExp == fracEnd <= Len(s) /\ s[fracEnd] \in {"e", "E"}
        expAt == IF hasExp /\ fracEnd + 1 <= Len(s) /\ s[fracEnd + 1] \in {"+", "-"}
                 THEN fracEnd + 2 ELSE fracEnd + 1
        expEnd == IF hasExp THEN jsonDigitsEnd(s, expAt) ELSE fracEnd
    IN  IF ~atDigit(d) THEN JFail(InvalidCharacter)
        ELSE IF hasFrac /\ fracEnd = intEnd + 1 THEN JFail(InvalidCharacter)
        ELSE IF hasExp /\ expEnd = expAt THEN JFail(InvalidCharacter)
        ELSE JOk([j |-> "num", neg |-> neg, whole |-> ~hasFrac /\ ~hasExp,
                  mag |-> digitsValue(SubSeq(s, d, intEnd - 1)),
                  text |-> SubSeq(s, i, expEnd - 1)], expEnd)

\* One of the literals true, false and null, which starts at i.
jsonLiteral(s, i, w, v) ==
    IF i + Len(w) - 1 <= Len(s) /\ SubSeq(s, i, i + Len(w) - 1) = w
    THEN JOk(v, i + Len(w))
    ELSE JFail(InvalidCharacter)

RECURSIVE jsonValue(_, _), jsonElems(_, _, _), jsonMembers(_, _, _)
\* The value that starts at i or after the white space at i: [ok, v, i, err]
\* with i the position after the value.
jsonValue(s, at) ==
    LET begin(i) ==
            IF i > Len(s) THEN JFail(UnexpectedEnd)
            ELSE IF s[i] = "{"
                 THEN LET first(k) ==
                              IF k > Len(s) THEN JFail(UnexpectedEnd)
                              ELSE IF s[k] = "}" THEN JOk([j |-> "obj", kv |-> <<>>], k + 1)
                              ELSE jsonMembers(s, k, <<>>)
                      IN  first(skipSpace(s, i + 1))
            ELSE IF s[i] = "["
                 THEN LET first(k) ==
                              IF k > Len(s) THEN JFail(UnexpectedEnd)
                              ELSE IF s[k] = "]" THEN JOk([j |-> "arr", e |-> <<>>], k + 1)
                              ELSE jsonElems(s, k, <<>>)
                      IN  first(skipSpace(s, i + 1))
            ELSE IF s[i] = "\"" THEN jsonString(s, i + 1, <<>>)
            ELSE IF s[i] = "t"
                 THEN jsonLiteral(s, i, <<"t", "r", "u", "e">>, [j |-> "bool", b |-> TRUE])
            ELSE IF s[i] = "f"
                 THEN jsonLiteral(s, i, <<"f", "a", "l", "s", "e">>, [j |-> "bool", b |-> FALSE])
            ELSE IF s[i] = "n" THEN jsonLiteral(s, i, <<"n", "u", "l", "l">>, JNull)
            ELSE IF s[i] = "-" \/ IsDigit(s[i]) THEN jsonNumber(s, i)
            ELSE JFail(InvalidCharacter)
    IN  begin(skipSpace(s, at))

\* The elements of an array from position i, after those of acc.
jsonElems(s, i, acc) ==
    LET next(r, k) ==
            IF k > Len(s) THEN JFail(UnexpectedEnd)
            ELSE IF s[k] = "," THEN jsonElems(s, k + 1, Append(acc, r.v))
            ELSE IF s[k] = "]" THEN JOk([j |-> "arr", e |-> Append(acc, r.v)], k + 1)
            ELSE JFail(InvalidCharacter)
        after(r) == IF ~r.ok THEN r ELSE next(r, skipSpace(s, r.i))
    IN  after(jsonValue(s, i))

\* The members of an object from position i, after those of acc.
jsonMembers(s, i, acc) ==
    LET next(key, r, k) ==
            IF k > Len(s) THEN JFail(UnexpectedEnd)
            ELSE IF s[k] = ","
                 THEN jsonMembers(s, k + 1, Append(acc, [key |-> key.v.s, val |-> r.v]))
            ELSE IF s[k] = "}"
                 THEN JOk([j |-> "obj", kv |-> Append(acc, [key |-> key.v.s, val |-> r.v])],
                          k + 1)
            ELSE JFail(InvalidCharacter)
        after(key, r) == IF ~r.ok THEN r ELSE next(key, r, skipSpace(s, r.i))
        colon(key, c) ==
            IF c > Len(s) THEN JFail(UnexpectedEnd)
            ELSE IF s[c] # ":" THEN JFail(InvalidCharacter)
            ELSE after(key, jsonValue(s, c + 1))
        named(key) == IF ~key.ok THEN key ELSE colon(key, skipSpace(s, key.i))
        begin(k) ==
            IF k > Len(s) THEN JFail(UnexpectedEnd)
            ELSE IF s[k] # "\"" THEN JFail(InvalidCharacter)
            ELSE named(jsonString(s, k + 1, <<>>))
    IN  begin(skipSpace(s, i))

\* json.checkValid and the scan of the whole text: [ok, v, i, err].
JSONParse(s) ==
    LET whole(r) == IF ~r.ok THEN r
                    ELSE IF skipSpace(s, r.i) = Len(s) + 1 THEN r
                    ELSE JFail(InvalidCharacter)
    IN  whole(jsonValue(s, 1))

(***************************************************************************)
(* encoding/json: decoding a parsed document into a value of a type, the   *)
(* way json.Unmarshal stores into its target: a struct keeps the fields    *)
(* the document does not name, a map keeps its other keys, a pointer is    *)
(* followed (allocated when nil), and a mismatch between document and type *)
(* is remembered as an error while decoding goes on.                       *)
(* Decode(h, j, t, cur) is [h, v, err]: the heap, the value that replaces  *)
(* cur, and "" or the first error.                                         *)
(***************************************************************************)
DRes(h, v, e) == [h |-> h, v |-> v, err |-> e]
FirstErr(a, b) == IF a # "" THEN a ELSE b

\* The text before the first comma, and the text after it.
CutBefore(s) ==
    IF ~InSeq(",", s) THEN s
    ELSE SubSeq(s, 1, (CHOOSE i \in 1..Len(s) : s[i] = "," /\ \A k \in 1..(i - 1) : s[k] # ",") - 1)
CutAfter(s) == IF ~InSeq(",", s) THEN <<>> ELSE Drop(s, Len(CutBefore(s)) + 1)

\* encoding/json's view of a field: skipped, the key, and the omitempty option.
JsonSkipped(sf) == ~sf.Exported \/ (sf.HasJson /\ sf.Json = <<"-">>)
JsonKey(sf) ==
    IF sf.HasJson /\ CutBefore(sf.Json) # <<>> THEN CutBefore(sf.Json) ELSE sf.Name
JsonOmitEmpty(sf) == sf.HasJson /\ CutAfter(sf.Json) = <<"o", "m", "i", "t", "e", "m", "p", "t", "y">>

RECURSIVE sameFoldedName(_, _)
\* Whether an object key and the key of a field are the same but for case
\* (encoding/json: foldName(key) = foldName(name)), for a field key made of ASCII
\* runes, as the keys of the struct types here are: a rune of the key stands for
\* an ASCII letter when it is that letter in either case, or the long s for S,
\* or the Kelvin sign for K.
sameFoldedName(key, name) ==
    LET upper(c) == IF InSeq(c, LowerChars) THEN UpperChars[IndexIn(c, LowerChars)] ELSE c
        folds(c, a) == \/ upper(c) = upper(a)
                       \/ c = "U+017F" /\ upper(a) = "S"
                       \/ c = "U+212A" /\ upper(a) = "K"
    IN  IF key = <<>> \/ name = <<>> THEN key = name
        ELSE folds(key[1], name[1]) /\ sameFoldedName(Tail(key), Tail(name))

\* The index of the field an object key names: the first field whose key is
\* the same, else the first whose key is the same but for case; 0 when there is none.
FieldOfKey(t, key) ==
    LET exact(fs) == {i \in 1..Len(fs) : ~JsonSkipped(fs[i]) /\ JsonKey(fs[i]) = key}
        fold(fs) == {i \in 1..Len(fs) :
                        ~JsonSkipped(fs[i]) /\ sameFoldedName(key, JsonKey(fs[i]))}
        first(hit) == IF hit = {} THEN 0 ELSE CHOOSE i \in hit : \A k \in hit : i <= k
        match(fs, ex) == first(IF ex # {} THEN ex ELSE fold(fs))
        among(fs) == match(fs, exact(fs))
    IN  among(StructFields(t))

MapPut(m, key, v) == [x \in (DOMAIN m) \cup {key} |-> IF x = key THEN v ELSE m[x]]

RECURSIVE Decode(_, _, _, _), decodeFields(_, _, _, _, _), decodeKeys(_, _, _, _, _),
          decodeElems(_, _, _, _, _, _)
Decode(h, j, t, cur) ==
    CASE t.kind = "ptr" ->
            IF j.j = "null" THEN DRes(h, VPtr(0), "")
            ELSE LET stored(al, r) == DRes([r.h EXCEPT ![al.a] = r.v], VPtr(al.a), r.err)
                     into(al) == stored(al, Decode(al.h, j, t.elem, al.h[al.a]))
                 IN  into(IF cur.a = 0 THEN Alloc(h, ZeroOf(t.elem))
                          ELSE [h |-> h, a |-> cur.a])
      [] t.kind = "struct" ->
            IF j.j = "obj" THEN decodeFields(h, j.kv, t, cur, "")
            ELSE IF j.j = "null" THEN DRes(h, cur, "")
            ELSE DRes(h, cur, "type")
      [] t.kind = "map" ->
            IF j.j = "obj"
            THEN decodeKeys(h, j.kv, t, IF cur.isnil THEN VMap(<<>>) ELSE cur, "")
            ELSE IF j.j = "null" THEN DRes(h, VNilMap, "")
            ELSE DRes(h, cur, "type")
      [] t.kind = "slice" ->
            IF j.j = "arr" THEN decodeElems(h, j.e, t, cur, <<>>, "")
            ELSE IF j.j = "null" THEN DRes(h, VNilSlice, "")
            ELSE IF j.j = "str" /\ t.elem.kind = "uint8"
                 THEN LET bytes(b) == IF b.err = "" THEN DRes(h, VSlice(b.v), "")
                                      ELSE DRes(h, cur, b.err)
                      IN  bytes(Base64Decode(j.s))
            ELSE DRes(h, cur, "type")
      [] t.kind = "string" ->
            IF j.j = "str" THEN DRes(h, VStr(j.s), "")
            ELSE IF j.j = "null" THEN DRes(h, cur, "")
            ELSE DRes(h, cur, "type")
      [] t.kind = "bool" ->
            IF j.j = "bool" THEN DRes(h, VBool(j.b), "")
            ELSE IF j.j = "null" THEN DRes(h, cur, "")
            ELSE DRes(h, cur, "type")
      [] t.kind \in IntKinds ->
            IF j.j = "num" /\ j.whole /\ (t.kind \notin SignedKinds => ~j.neg)
               /\ FitsKind(t.kind, SInt(j.neg, j.mag))
            THEN DRes(h, IntValue(t.kind, SInt(j.neg, j.mag)), "")
            ELSE IF j.j = "null" THEN DRes(h, cur, "")
            ELSE DRes(h, cur, "type")
      [] t.kind \in FloatKinds ->
            IF j.j = "num"
            THEN LET number(r) == IF r.err # "" THEN DRes(h, cur, "type")
                                  ELSE DRes(h, VFloat(t.kind, r.v), "")
                 IN  number(ParseFloat(j.text, Bits(t.kind)))
            ELSE IF j.j = "null" THEN DRes(h, cur, "")
            ELSE DRes(h, cur, "type")
      [] OTHER ->
            IF j.j = "null" THEN DRes(h, cur, "") ELSE DRes(h, cur, "type")

\* The members of an object, in order, into the fields of a struct.
decodeFields(h, kv, t, cur, e) ==
    IF kv = <<>> THEN DRes(h, cur, e)
    ELSE LET rest(i, r) == decodeFields(r.h, Tail(kv), t,
                                        [cur EXCEPT !.f = [@ EXCEPT ![i] = r.v]],
                                        FirstErr(e, r.err))
             field(i) ==
                 IF i = 0 THEN decodeFields(h, Tail(kv), t, cur, e)
                 ELSE rest(i, Decode(h, kv[1].val, StructFields(t)[i].Type, cur.f[i]))
         IN  field(FieldOfKey(t, kv[1].key))

\* The members of an object, in order, into a map: each value is decoded into a new element.
decodeKeys(h, kv, t, cur, e) ==
    IF kv = <<>> THEN DRes(h, cur, e)
    ELSE LET rest(r) == decodeKeys(r.h, Tail(kv), t, VMap(MapPut(cur.m, kv[1].key, r.v)),
                                   FirstErr(e, r.err))
         IN  rest(Decode(h, kv[1].val, t.elem, ZeroOf(t.elem)))

\* The elements of an array (decode.go array): element i is decoded into element
\* i of the slice's array, which the slice is extended to (SetLen, Grow) when it
\* is shorter; at the end the slice is cut to the elements read, its array
\* keeping the others, and a document without elements gives a new empty slice.
decodeElems(h, es, t, cur, acc, e) ==
    LET held == cur.e \o cur.spare
    IN  IF es = <<>>
        THEN IF acc = <<>> THEN DRes(h, VSlice(<<>>), e)
             ELSE DRes(h, VSliceOver(acc, SubSeq(held, Len(acc) + 1, Len(held))), e)
        ELSE LET i == Len(acc) + 1
                 rest(r) == decodeElems(r.h, Tail(es), t, cur, Append(acc, r.v),
                                        FirstErr(e, r.err))
             IN  rest(Decode(h, es[1], t.elem,
                             IF i <= Len(held) THEN held[i] ELSE ZeroOf(t.elem)))

\* json.Unmarshal(text, &target) with target of type t holding cur: [h, v, err].
\* A text that is not valid JSON is refused before anything is stored.
decodeParsed(h, p, t, cur) ==
    IF ~p.ok THEN DRes(h, cur, p.err) ELSE Decode(h, p.v, t, cur)
Unmarshal(h, text, t, cur) == decodeParsed(h, JSONParse(text), t, cur)

(***************************************************************************)
(* reflect.Value.  The base of every node is reflect.ValueOf(root), which  *)
(* is not settable; every other value the package handles is a location of *)
(* the heap (settable), or a value decoded into a temporary.               *)
(*   [settable, loc, val, typ]: a location, or (not settable) the value val*)
(*   [isPtr, v]: a temporary v, or (isPtr) a pointer to the temporary v    *)
(***************************************************************************)
RvLoc(loc, t) == [settable |-> TRUE, loc |-> loc, val |-> VPtr(0), typ |-> t]
RvVal(v, t) == [settable |-> FALSE, loc |-> Loc(0, <<>>), val |-> v, typ |-> t]
RVal(h, rv) == IF rv.settable THEN Load(h, rv.loc) ELSE rv.val

\* typed: the temporary was made with reflect from the type it is stored in
\* (reflect.New, reflect.Append); otherwise v is a Go value of a predeclared
\* type (reflect.ValueOf of what strconv or base64 returned).
Tmp(v) == [isPtr |-> FALSE, v |-> v, typed |-> FALSE]
TmpPtr(v) == [isPtr |-> TRUE, v |-> v, typed |-> TRUE]
TmpOf(v) == [isPtr |-> FALSE, v |-> v, typed |-> TRUE]

\* reflect.ValueOf(v).Type() of a parsed value: bool, a number, string, []byte.
ValueType(v) == IF v.k = "slice" THEN SliceOf(Prim("uint8")) ELSE Prim(v.k)

\* t.Name() != "": the predeclared types and the types the caller defines.
hasName(t) == "named" \in DOMAIN t \/ t.kind \notin {"ptr", "slice", "map"}

\* Whether dst.Set(src) and reflect.Append accept a value of type V for the
\* type T: the same type, or one of them without a name and the same
\* underlying type (the element types identical).
AssignableTo(T, V) ==
    \/ T = V
    \/ /\ ~(hasName(T) /\ hasName(V))
       /\ T.kind = V.kind
       /\ T.kind \in {"ptr", "slice", "map"}
       /\ T.elem = V.elem

\* The type of src when it is stored in a place of type T, after a pointer was
\* taken or followed to match the kind of T.
SrcType(T, src) ==
    IF src.typed THEN T
    ELSE IF T.kind = "ptr" THEN [kind |-> "ptr", elem |-> ValueType(src.v)]
    ELSE ValueType(src.v)

\* reflect.ValueOf(base) for a base that is a pointer.
BaseValue(b) == RvVal(VPtr(b.a), b.typ)

\* v.Elem() of a non-nil pointer.
Elem(h, rv) == RvLoc(Loc(RVal(h, rv).a, <<>>), rv.typ.elem)

RECURSIVE MadeOf(_)
\* A value of type t whose lists are empty but not nil, and zero otherwise.
MadeOf(t) ==
    CASE t.kind = "slice" -> VSlice(<<>>)
      [] t.kind = "struct" ->
            VStruct([i \in 1..Len(StructFields(t)) |-> MadeOf(StructFields(t)[i].Type)])
      [] OTHER -> ZeroOf(t)

\* A variant of SetNew: the record it allocates has its lists made, not nil.
SetNewMade(h, loc, t) ==
    LET set(al) == Store(al.h, loc, VPtr(al.a)) IN set(Alloc(h, MadeOf(t.elem)))

\* v.Set(reflect.New(v.Type().Elem())) at a location holding a nil pointer.
SetNew(h, loc, t) ==
    LET set(al) == Store(al.h, loc, VPtr(al.a)) IN set(Alloc(h, ZeroOf(t.elem)))

RECURSIVE fieldLoopAlways(_, _, _, _)
\* A variant of fieldLoop: every pointer on the way is given a new record,
\* nil or not (v.Set(reflect.New(...)) without the v.IsNil() test).
fieldLoopAlways(h, loc, t, index) ==
    IF index = <<>>
    THEN IF t.kind = "ptr" /\ Load(h, loc).a = 0
         THEN [h |-> SetNew(h, loc, t), v |-> RvLoc(loc, t)]
         ELSE [h |-> h, v |-> RvLoc(loc, t)]
    ELSE LET x == Head(index)
             field(h1, l1) ==
                 fieldLoopAlways(h1, Loc(l1.a, Append(l1.p, x)),
                                 StructFields(elemIfPtrType(t))[x].Type, Tail(index))
             elem(h1) ==
                 field(h1, IF t.kind = "ptr" THEN Loc(Load(h1, loc).a, <<>>) ELSE loc)
         IN  elem(IF t.kind = "ptr" THEN SetNew(h, loc, t) ELSE h)

RECURSIVE fieldLoopLazy(_, _, _, _)
\* A variant of fieldLoop: a nil pointer at the position itself is left nil
\* (fieldByIndex without its last v.Set(reflect.New(...))).
fieldLoopLazy(h, loc, t, index) ==
    IF index = <<>> THEN [h |-> h, v |-> RvLoc(loc, t)]
    ELSE LET x == Head(index)
             field(h1, l1) ==
                 fieldLoopLazy(h1, Loc(l1.a, Append(l1.p, x)),
                               StructFields(elemIfPtrType(t))[x].Type, Tail(index))
             elem(h1) ==
                 field(h1, IF t.kind = "ptr" THEN Loc(Load(h1, loc).a, <<>>) ELSE loc)
         IN  elem(IF t.kind = "ptr" /\ Load(h, loc).a = 0 THEN SetNew(h, loc, t) ELSE h)

RECURSIVE fieldLoop(_, _, _, _)
\* The loop of fieldByIndex and its last step, from the location loc of type t.
fieldLoop(h, loc, t, index) ==
    IF index = <<>>
    THEN IF t.kind = "ptr" /\ Load(h, loc).a = 0
         THEN [h |-> SetNew(h, loc, t), v |-> RvLoc(loc, t)]
         ELSE [h |-> h, v |-> RvLoc(loc, t)]
    ELSE LET x == Head(index)
             field(h1, l1) ==
                 fieldLoop(h1, Loc(l1.a, Append(l1.p, x)),
                           StructFields(elemIfPtrType(t))[x].Type, Tail(index))
             elem(h1) ==
                 field(h1, IF t.kind = "ptr" THEN Loc(Load(h1, loc).a, <<>>) ELSE loc)
         IN  elem(IF t.kind = "ptr" /\ Load(h, loc).a = 0 THEN SetNew(h, loc, t) ELSE h)

\* fieldByIndex(v, index) with v the base of a node: [h, v], the heap after the
\* allocations it makes and the value it returns.  The base is a non-nil pointer.
fieldByIndex(h, b, index) ==
    IF index = <<>> THEN [h |-> h, v |-> BaseValue(b)]
    ELSE fieldLoop(h, Loc(b.a, <<>>), b.typ.elem, index)

\* elemIfPtr(v): the value a pointer points to, or v itself.
elemIfPtr(h, rv) ==
    IF rv.typ.kind # "ptr" THEN rv
    ELSE IF RVal(h, rv).a = 0 THEN RvVal(ZeroOf(rv.typ.elem), rv.typ.elem)
    ELSE Elem(h, rv)

\* A pointer to the temporary of src: the temporary becomes a cell of the heap.
\* (addressable(src).Addr() of a value, or src itself when it already is a pointer.)
AddrOf(h, src) == Alloc(h, src.v)

\* A variant of reflectValueSet: a pointer that is not nil is written through,
\* the value stored in the cell it points to.
reflectValueSetInPlace(h, dst, src) ==
    LET ptrTo(d, al) == Store(al.h, d.loc, VPtr(al.a))
        set(d) ==
            IF d.typ.kind = "ptr" /\ Load(h, d.loc).a # 0
            THEN Store(h, Loc(Load(h, d.loc).a, <<>>), src.v)
            ELSE IF d.typ.kind = "ptr" THEN ptrTo(d, AddrOf(h, src))
            ELSE Store(h, d.loc, src.v)
    IN  set(IF dst.typ.kind = "ptr" /\ ~dst.settable THEN Elem(h, dst) ELSE dst)

\* reflectValueSet(dst, src): the heap after the store.
reflectValueSet(h, dst, src) ==
    LET ptrTo(d, al) == Store(al.h, d.loc, VPtr(al.a))
        set(d) ==
            IF d.typ.kind = "ptr" /\ ~src.isPtr THEN ptrTo(d, AddrOf(h, src))
            ELSE IF d.typ.kind # "ptr" /\ src.isPtr THEN Store(h, d.loc, src.v)
            ELSE IF src.isPtr THEN ptrTo(d, AddrOf(h, src))
            ELSE Store(h, d.loc, src.v)
    IN  set(IF dst.typ.kind = "ptr" /\ ~dst.settable THEN Elem(h, dst) ELSE dst)

\* dst.Set(src) of reflectValueSet panics: src is not assignable to dst.
setPanics(dst, src) ==
    LET panics(T) == ~AssignableTo(T, SrcType(T, src))
    IN  panics(IF dst.typ.kind = "ptr" /\ ~dst.settable THEN dst.typ.elem ELSE dst.typ)

\* reflect.Append(elemIfPtr(slc), v) of reflectValueAppend panics: v is not
\* assignable to the element type of the list.
appendPanics(slc, src) ==
    LET panics(T) == ~AssignableTo(T, SrcType(T, src))
    IN  panics(elemIfPtrType(slc.typ).elem)

\* A variant of reflectValueAppend: the new element alone, the list it is
\* appended to forgotten.
reflectValueAppendAlone(h, slc, src) ==
    IF elemIfPtrType(slc.typ).elem.kind = "ptr"
    THEN LET alone(al) == [h |-> al.h, v |-> TmpOf(VSlice(<<VPtr(al.a)>>))]
         IN  alone(AddrOf(h, src))
    ELSE [h |-> h, v |-> TmpOf(VSlice(<<src.v>>))]

\* reflect.Append(s, x): the slice one element longer; the element takes the
\* next place of the slice's array.
sliceAppend(old, x) ==
    VSliceOver(Append(old.e, x), IF old.spare = <<>> THEN <<>> ELSE Tail(old.spare))

\* reflectValueAppend(slc, v): [h, v] with v the slice one element longer.
reflectValueAppend(h, slc, src) ==
    LET ptrTo(old, al) == [h |-> al.h, v |-> TmpOf(sliceAppend(old, VPtr(al.a)))]
        append(et, old) ==
            IF et.kind = "ptr" /\ ~src.isPtr THEN ptrTo(old, AddrOf(h, src))
            ELSE IF et.kind # "ptr" /\ src.isPtr
                 THEN [h |-> h, v |-> TmpOf(sliceAppend(old, src.v))]
            ELSE IF src.isPtr THEN ptrTo(old, AddrOf(h, src))
            ELSE [h |-> h, v |-> TmpOf(sliceAppend(old, src.v))]
    IN  append(elemIfPtrType(slc.typ).elem, RVal(h, slc))

(***************************************************************************)
(* Value: a flag value.  null is a nil *Value; base.valid is false in the  *)
(* zero Value{}.  Field indexes count from 1.                              *)
(***************************************************************************)
NoBase == [valid |-> FALSE, a |-> 0, typ |-> TChan]
PtrBase(a, t) == [valid |-> TRUE, a |-> a, typ |-> PtrTo(t)]

MkValue(b, fieldsIndexes, fields, typeName, stringFn, setFn, isBool) ==
    [ null |-> FALSE, base |-> b, fieldsIndexes |-> fieldsIndexes, fields |-> fields,
      typeName |-> typeName, stringFn |-> stringFn, encodeFn |-> "nil",
      setFn |-> setFn, decodeFn |-> "nil", isBool |-> isBool ]

\* (*Value)(nil)
NilValue == [MkValue(NoBase, <<>>, <<>>, "", "", "", FALSE) EXCEPT !.null = TRUE]
\* &Value{}
ZeroValue == MkValue(NoBase, <<>>, <<>>, "", "", "", FALSE)

newBoolValue(b, ix, fs) == MkValue(b, ix, fs, "bool", "boolValueString", "boolValueSet", FALSE)
newIntValue(b, ix, fs) == MkValue(b, ix, fs, "int", "intValueString", "intValueSet", FALSE)
newInt8Value(b, ix, fs) == MkValue(b, ix, fs, "int8", "intValueString", "int8ValueSet", FALSE)
newUintValue(b, ix, fs) == MkValue(b, ix, fs, "uint", "uintValueString", "uintValueSet", FALSE)
newUint8Value(b, ix, fs) == MkValue(b, ix, fs, "uint8", "uintValueString", "uint8ValueSet", FALSE)
newInt16Value(b, ix, fs) == MkValue(b, ix, fs, "int16", "intValueString", "int16ValueSet", FALSE)
newInt32Value(b, ix, fs) == MkValue(b, ix, fs, "int32", "intValueString", "int32ValueSet", FALSE)
newInt64Value(b, ix, fs) == MkValue(b, ix, fs, "int64", "intValueString", "int64ValueSet", FALSE)
newUint16Value(b, ix, fs) == MkValue(b, ix, fs, "uint16", "uintValueString", "uint16ValueSet", FALSE)
newUint32Value(b, ix, fs) == MkValue(b, ix, fs, "uint32", "uintValueString", "uint32ValueSet", FALSE)
newUint64Value(b, ix, fs) == MkValue(b, ix, fs, "uint64", "uintValueString", "uint64ValueSet", FALSE)
newFloat32Value(b, ix, fs) ==
    MkValue(b, ix, fs, "float32", "float32ValueString", "float32ValueSet", FALSE)
newFloat64Value(b, ix, fs) ==
    MkValue(b, ix, fs, "float64", "float64ValueString", "float64ValueSet", FALSE)
newComplex64Value(b, ix, fs) ==
    MkValue(b, ix, fs, "complex64", "complex64ValueString", "complex64ValueSet", FALSE)
newComplex128Value(b, ix, fs) ==
    MkValue(b, ix, fs, "complex128", "complex128ValueString", "complex128ValueSet", FALSE)
newStringValue(b, ix, fs) == MkValue(b, ix, fs, "string", "stringValueString", "stringValueSet", FALSE)
newBytesValue(b, ix, fs) == MkValue(b, ix, fs, "base64", "bytesValueString", "bytesValueSet", FALSE)
newMapValue(b, ix, fs) == MkValue(b, ix, fs, "JSON object", "mapValueString", "mapValueSet", FALSE)
newStructValue(b, ix, fs) == MkValue(b, ix, fs, "JSON object", "structValueString", "structValueSet", FALSE)
newBoolSliceValue(b, ix, fs) ==
    MkValue(b, ix, fs, "bool (JSON list)", "sliceValueString", "boolSliceValueSet", TRUE)
newIntSliceValue(b, ix, fs) ==
    MkValue(b, ix, fs, "int (JSON list)", "sliceValueString", "intSliceValueSet", FALSE)
newInt8SliceValue(b, ix, fs) ==
    MkValue(b, ix, fs, "int8 (JSON list)", "sliceValueString", "int8SliceValueSet", FALSE)
newUintSliceValue(b, ix, fs) ==
    MkValue(b, ix, fs, "uint (JSON list)", "sliceValueString", "uintSliceValueSet", FALSE)
newUint8SliceValue(b, ix, fs) ==
    MkValue(b, ix, fs, "uint8 (JSON list)", "sliceValueString", "uint8SliceValueSet", FALSE)
newInt16SliceValue(b, ix, fs) ==
    MkValue(b, ix, fs, "int16 (JSON list)", "sliceValueString", "int16SliceValueSet", FALSE)
newInt32SliceValue(b, ix, fs) ==
    MkValue(b, ix, fs, "int32 (JSON list)", "sliceValueString", "int32SliceValueSet", FALSE)
newInt64SliceValue(b, ix, fs) ==
    MkValue(b, ix, fs, "int64 (JSON list)", "sliceValueString", "int64SliceValueSet", FALSE)
newUint16SliceValue(b, ix, fs) ==
    MkValue(b, ix, fs, "uint16 (JSON list)", "sliceValueString", "uint16SliceValueSet", FALSE)
newUint32SliceValue(b, ix, fs) ==
    MkValue(b, ix, fs, "uint32 (JSON list)", "sliceValueString", "uint32SliceValueSet", FALSE)
newUint64SliceValue(b, ix, fs) ==
    MkValue(b, ix, fs, "uint64 (JSON list)", "sliceValueString", "uint64SliceValueSet", FALSE)
newFloat32SliceValue(b, ix, fs) ==
    MkValue(b, ix, fs, "float32 (JSON list)", "sliceValueString", "float32SliceValueSet", FALSE)
newFloat64SliceValue(b, ix, fs) ==
    MkValue(b, ix, fs, "float64 (JSON list)", "sliceValueString", "float64SliceValueSet", FALSE)
newComplex64SliceValue(b, ix, fs) ==
    MkValue(b, ix, fs, "complex64 (JSON list)", "complex64SliceValueString",
            "complex64SliceValueSet", FALSE)
newComplex128SliceValue(b, ix, fs) ==
    MkValue(b, ix, fs, "complex128 (JSON list)", "complex128SliceValueString",
            "complex128SliceValueSet", FALSE)
newStringSliceValue(b, ix, fs) ==
    MkValue(b, ix, fs, "string (JSON list)", "sliceValueString", "stringSliceValueSet", FALSE)
newBytesSliceValue(b, ix, fs) ==
    MkValue(b, ix, fs, "base64 (JSON list)", "sliceValueString", "bytesSliceValueSet", FALSE)
newSliceSliceValue(b, ix, fs) ==
    MkValue(b, ix, fs, "JSON list", "sliceValueString", "sliceSliceValueSet", FALSE)
newMapSliceValue(b, ix, fs) ==
    MkValue(b, ix, fs, "JSON object (JSON list)", "sliceValueString", "mapSliceValueSet", FALSE)
newStructSliceValue(b, ix, fs) ==
    MkValue(b, ix, fs, "JSON object (JSON list)", "sliceValueString", "structSliceValueSet", FALSE)

\* A variant of newSliceValue: the byte buffer is recognised on the element
\* after its pointer is unwrapped.
newSliceValueUnwrapped(typ, b, ix, fs) ==
    LET of(t) ==
        CASE t.kind = "bool" -> newBoolSliceValue(b, ix, fs)
          [] t.kind = "int" -> newIntSliceValue(b, ix, fs)
          [] t.kind = "int8" -> newInt8SliceValue(b, ix, fs)
          [] t.kind = "int16" -> newInt16SliceValue(b, ix, fs)
          [] t.kind = "int32" -> newInt32SliceValue(b, ix, fs)
          [] t.kind = "int64" -> newInt64SliceValue(b, ix, fs)
          [] t.kind = "uint" -> newUintSliceValue(b, ix, fs)
          [] t.kind = "uint8" -> newBytesValue(b, ix, fs)
          [] t.kind = "uint16" -> newUint16SliceValue(b, ix, fs)
          [] t.kind = "uint32" -> newUint32SliceValue(b, ix, fs)
          [] t.kind = "uint64" -> newUint64SliceValue(b, ix, fs)
          [] t.kind = "float32" -> newFloat32SliceValue(b, ix, fs)
          [] t.kind = "float64" -> newFloat64SliceValue(b, ix, fs)
          [] t.kind = "complex64" -> newComplex64SliceValue(b, ix, fs)
          [] t.kind = "complex128" -> newComplex128SliceValue(b, ix, fs)
          [] t.kind = "string" -> newStringSliceValue(b, ix, fs)
          [] t.kind = "slice" ->
                IF t.elem.kind = "uint8" THEN newBytesSliceValue(b, ix, fs)
                ELSE newSliceSliceValue(b, ix, fs)
          [] t.kind = "map" -> newMapSliceValue(b, ix, fs)
          [] t.kind = "struct" -> newStructSliceValue(b, ix, fs)
          [] OTHER -> NilValue
    IN  of(elemIfPtrType(typ.elem))

newSliceValue(typ, b, ix, fs) ==
    LET of(t) ==
        CASE t.kind = "bool" -> newBoolSliceValue(b, ix, fs)
          [] t.kind = "int" -> newIntSliceValue(b, ix, fs)
          [] t.kind = "int8" -> newInt8SliceValue(b, ix, fs)
          [] t.kind = "int16" -> newInt16SliceValue(b, ix, fs)
          [] t.kind = "int32" -> newInt32SliceValue(b, ix, fs)
          [] t.kind = "int64" -> newInt64SliceValue(b, ix, fs)
          [] t.kind = "uint" -> newUintSliceValue(b, ix, fs)
          [] t.kind = "uint8" ->
                IF typ.elem.kind = "uint8" THEN newBytesValue(b, ix, fs)
                ELSE newUint8SliceValue(b, ix, fs)
          [] t.kind = "uint16" -> newUint16SliceValue(b, ix, fs)
          [] t.kind = "uint32" -> newUint32SliceValue(b, ix, fs)
          [] t.kind = "uint64" -> newUint64SliceValue(b, ix, fs)
          [] t.kind = "float32" -> newFloat32SliceValue(b, ix, fs)
          [] t.kind = "float64" -> newFloat64SliceValue(b, ix, fs)
          [] t.kind = "complex64" -> newComplex64SliceValue(b, ix, fs)
          [] t.kind = "complex128" -> newComplex128SliceValue(b, ix, fs)
          [] t.kind = "string" -> newStringSliceValue(b, ix, fs)
          [] t.kind = "slice" ->
                IF t.elem.kind = "uint8" THEN newBytesSliceValue(b, ix, fs)
                ELSE newSliceSliceValue(b, ix, fs)
          [] t.kind = "map" -> newMapSliceValue(b, ix, fs)
          [] t.kind = "struct" -> newStructSliceValue(b, ix, fs)
          [] OTHER -> NilValue
    IN  of(elemIfPtrType(typ.elem))

\* The declared type of the position: the base's type, or the last field's.
PosType(b, fs) == IF Len(fs) > 0 THEN fs[Len(fs)].Type ELSE b.typ

newValue(b, ix, fs) ==
    LET of(t) ==
        CASE t.kind = "bool" -> newBoolValue(b, ix, fs)
          [] t.kind = "int" -> newIntValue(b, ix, fs)
          [] t.kind = "int8" -> newInt8Value(b, ix, fs)
          [] t.kind = "int16" -> newInt16Value(b, ix, fs)
          [] t.kind = "int32" -> newInt32Value(b, ix, fs)
          [] t.kind = "int64" -> newInt64Value(b, ix, fs)
          [] t.kind = "uint" -> newUintValue(b, ix, fs)
          [] t.kind = "uint8" -> newUint8Value(b, ix, fs)
          [] t.kind = "uint16" -> newUint16Value(b, ix, fs)
          [] t.kind = "uint32" -> newUint32Value(b, ix, fs)
          [] t.kind = "uint64" -> newUint64Value(b, ix, fs)
          [] t.kind = "float32" -> newFloat32Value(b, ix, fs)
          [] t.kind = "float64" -> newFloat64Value(b, ix, fs)
          [] t.kind = "complex64" -> newComplex64Value(b, ix, fs)
          [] t.kind = "complex128" -> newComplex128Value(b, ix, fs)
          [] t.kind = "string" -> newStringValue(b, ix, fs)
          [] t.kind = "slice" -> newSliceValue(t, b, ix, fs)
          [] t.kind = "map" -> newMapValue(b, ix, fs)
          [] t.kind = "struct" -> newStructValue(b, ix, fs)
          [] OTHER -> NilValue
    IN  of(elemIfPtrType(PosType(b, fs)))

isInitialized(val) == ~val.null /\ val.base.valid

\* val.typ()
typ(val) == PosType(val.base, val.fields)

\* A variant of get: the location is the one the path led to before the last
\* call, when it led to one (a location cached in the node).
getCached(h, val) ==
    LET cached(old) == IF old.h = pre /\ Len(pre) <= Len(h) THEN [h |-> h, v |-> old.v]
                       ELSE fieldByIndex(h, val.base, val.fieldsIndexes)
    IN  cached(fieldByIndex(pre, val.base, val.fieldsIndexes))

\* val.get(): [h, v]
get(h, val) == fieldByIndex(h, val.base, val.fieldsIndexes)

(***************************************************************************)
(* The built-in Set functions.  Each parses the text first and resolves    *)
(* the position (val.get()) only once the text has parsed.  The result is  *)
(* [h, err].  Cells a failed json.Unmarshal allocated belong to the        *)
(* temporary that is dropped: the heap is the one before the call.         *)
(* A panic of reflect is the result [h, "panic"], h the heap it left.      *)
(***************************************************************************)
SRes(h, e) == [h |-> h, err |-> e]

\* x := val.get(); reflectValueSet(x, src)
storeIn(x, src) ==
    IF setPanics(x.v, src) THEN SRes(x.h, "panic")
    ELSE SRes(reflectValueSet(x.h, x.v, src), "")
StoreAt(h, val, src) == storeIn(get(h, val), src)

\* x := val.get(); reflectValueSet(x, reflectValueAppend(elemIfPtr(x), src))
appended(x, ap) == SRes(reflectValueSet(ap.h, x.v, ap.v), "")
appendIn(x, src) ==
    IF appendPanics(elemIfPtr(x.h, x.v), src) THEN SRes(x.h, "panic")
    ELSE appended(x, reflectValueAppend(x.h, elemIfPtr(x.h, x.v), src))
AppendAt(h, val, src) == appendIn(get(h, val), src)

\* reflect.ValueOf(v) of the value v a parser of the kind returned.
reflectValueOf(kind, v) ==
    CASE kind = "bool" -> VBool(v)
      [] kind \in IntKinds -> VInt(kind, v)
      [] kind \in FloatKinds -> VFloat(kind, v)
      [] kind \in ComplexKinds -> VComplex(kind, v)
      [] kind = "bytes" -> VSlice(v)

\* if err != nil { return err }; reflectValueSet(val.get(), reflect.ValueOf(v))
\* with [err, v] what the parser of the kind returned.
StoreParsed(h, val, r, kind) ==
    IF r.err # "" THEN SRes(h, r.err) ELSE StoreAt(h, val, Tmp(reflectValueOf(kind, r.v)))

\* if err != nil { return err }; x := val.get();
\* reflectValueSet(x, reflectValueAppend(elemIfPtr(x), reflect.ValueOf(v)))
AppendParsed(h, val, r, kind) ==
    IF r.err # "" THEN SRes(h, r.err) ELSE AppendAt(h, val, Tmp(reflectValueOf(kind, r.v)))

\* if err := json.Unmarshal(to, v.Interface()); err != nil { return err };
\* reflectValueSet(val.get(), v) with [h, v, err] what Unmarshal returned.
StoreDecoded(h, val, r) ==
    IF r.err # "" THEN SRes(h, r.err) ELSE StoreAt(r.h, val, TmpPtr(r.v))

AppendDecoded(h, val, r) ==
    IF r.err # "" THEN SRes(h, r.err) ELSE AppendAt(r.h, val, TmpPtr(r.v))

boolValueSet(h, val, to) == StoreParsed(h, val, ParseBool(to), "bool")

\* A variant of int8ValueSet: the position is resolved before the text is parsed.
int8ValueSetEager(h, val, to) ==
    LET set(x, r) == IF r.err # "" THEN SRes(x.h, r.err)
                     ELSE SRes(reflectValueSet(x.h, x.v, Tmp(VInt("int8", r.v))), "")
    IN  set(get(h, val), parseInt8(to))

\* A variant of int8ValueSet: what the parser returned is stored whether or not
\* it reported an error.
int8ValueSetClamped(h, val, to) ==
    LET set(r) == StoreAt(h, val, Tmp(VInt("int8", r.v))) IN set(parseInt8(to))

int8ValueSet(h, val, to) == StoreParsed(h, val, parseInt8(to), "int8")

uint8ValueSet(h, val, to) == StoreParsed(h, val, parseUint8(to), "uint8")

int16ValueSet(h, val, to) == StoreParsed(h, val, parseInt16(to), "int16")

int32ValueSet(h, val, to) == StoreParsed(h, val, parseInt32(to), "int32")

int64ValueSet(h, val, to) == StoreParsed(h, val, parseInt64(to), "int64")

uint16ValueSet(h, val, to) == StoreParsed(h, val, parseUint16(to), "uint16")

uint32ValueSet(h, val, to) == StoreParsed(h, val, parseUint32(to), "uint32")

uint64ValueSet(h, val, to) == StoreParsed(h, val, parseUint64(to), "uint64")

intValueSet(h, val, to) == StoreParsed(h, val, parseInt(to), "int")

uintValueSet(h, val, to) == StoreParsed(h, val, parseUint(to), "uint")

float32ValueSet(h, val, to) == StoreParsed(h, val, parseFloat32(to), "float32")

float64ValueSet(h, val, to) == StoreParsed(h, val, parseFloat64(to), "float64")

complex64ValueSet(h, val, to) == StoreParsed(h, val, parseComplex64(to), "complex64")

complex128ValueSet(h, val, to) == StoreParsed(h, val, parseComplex128(to), "complex128")

stringValueSet(h, val, to) == StoreAt(h, val, Tmp(VStr(to)))

bytesValueSet(h, val, to) == StoreParsed(h, val, Base64Decode(to), "bytes")

\* A variant of mapValueSet: the text is decoded into the bound map itself.
mapValueSetInto(h, val, to) ==
    LET set(e, r) == IF r.err # "" THEN SRes(h, r.err) ELSE SRes(Store(r.h, e.loc, r.v), "")
        into(x, e) == set(e, Unmarshal(x.h, to, e.typ, RVal(x.h, e)))
        at(x) == into(x, elemIfPtr(x.h, x.v))
    IN  at(get(h, val))

mapValueSet(h, val, to) ==
    StoreDecoded(h, val, Unmarshal(h, to, elemIfPtrType(typ(val)), VMap(<<>>)))

structValueSet(h, val, to) ==
    StoreDecoded(h, val, Unmarshal(h, to, elemIfPtrType(typ(val)),
                                   ZeroOf(elemIfPtrType(typ(val)))))

boolSliceValueSet(h, val, to) == AppendParsed(h, val, ParseBool(to), "bool")

int8SliceValueSet(h, val, to) == AppendParsed(h, val, parseInt8(to), "int8")

uint8SliceValueSet(h, val, to) == AppendParsed(h, val, parseUint8(to), "uint8")

int16SliceValueSet(h, val, to) == AppendParsed(h, val, parseInt16(to), "int16")

int32SliceValueSet(h, val, to) == AppendParsed(h, val, parseInt32(to), "int32")

int64SliceValueSet(h, val, to) == AppendParsed(h, val, parseInt64(to), "int64")

uint16SliceValueSet(h, val, to) == AppendParsed(h, val, parseUint16(to), "uint16")

uint32SliceValueSet(h, val, to) == AppendParsed(h, val, parseUint32(to), "uint32")

uint64SliceValueSet(h, val, to) == AppendParsed(h, val, parseUint64(to), "uint64")

intSliceValueSet(h, val, to) == AppendParsed(h, val, parseInt(to), "int")

uintSliceValueSet(h, val, to) == AppendParsed(h, val, parseUint(to), "uint")

float32SliceValueSet(h, val, to) == AppendParsed(h, val, parseFloat32(to), "float32")

float64SliceValueSet(h, val, to) == AppendParsed(h, val, parseFloat64(to), "float64")

complex64SliceValueSet(h, val, to) == AppendParsed(h, val, parseComplex64(to), "complex64")

complex128SliceValueSet(h, val, to) == AppendParsed(h, val, parseComplex128(to), "complex128")

stringSliceValueSet(h, val, to) == AppendAt(h, val, Tmp(VStr(to)))

bytesSliceValueSet(h, val, to) == AppendParsed(h, val, Base64Decode(to), "bytes")

\* The element type of the list a node is bound to, a pointer unwrapped.
SliceElemType(val) == elemIfPtrType(elemIfPtrType(typ(val)).elem)

sliceSliceValueSet(h, val, to) ==
    AppendDecoded(h, val, Unmarshal(h, to, SliceElemType(val), VSlice(<<>>)))

mapSliceValueSet(h, val, to) ==
    AppendDecoded(h, val, Unmarshal(h, to, SliceElemType(val), VMap(<<>>)))

structSliceValueSet(h, val, to) ==
    AppendDecoded(h, val, Unmarshal(h, to, SliceElemType(val), ZeroOf(SliceElemType(val))))

\* val.setFn(val, to)
setFn(h, val, to) ==
    CASE val.setFn = "boolValueSet" -> boolValueSet(h, val, to)
      [] val.setFn = "int8ValueSet" -> int8ValueSet(h, val, to)
      [] val.setFn = "uint8ValueSet" -> uint8ValueSet(h, val, to)
      [] val.setFn = "int16ValueSet" -> int16ValueSet(h, val, to)
      [] val.setFn = "int32ValueSet" -> int32ValueSet(h, val, to)
      [] val.setFn = "int64ValueSet" -> int64ValueSet(h, val, to)
      [] val.setFn = "uint16ValueSet" -> uint16ValueSet(h, val, to)
      [] val.setFn = "uint32ValueSet" -> uint32ValueSet(h, val, to)
      [] val.setFn = "uint64ValueSet" -> uint64ValueSet(h, val, to)
      [] val.setFn = "intValueSet" -> intValueSet(h, val, to)
      [] val.setFn = "uintValueSet" -> uintValueSet(h, val, to)
      [] val.setFn = "float32ValueSet" -> float32ValueSet(h, val, to)
      [] val.setFn = "float64ValueSet" -> float64ValueSet(h, val, to)
      [] val.setFn = "complex64ValueSet" -> complex64ValueSet(h, val, to)
      [] val.setFn = "complex128ValueSet" -> complex128ValueSet(h, val, to)
      [] val.setFn = "stringValueSet" -> stringValueSet(h, val, to)
      [] val.setFn = "bytesValueSet" -> bytesValueSet(h, val, to)
      [] val.setFn = "mapValueSet" -> mapValueSet(h, val, to)
      [] val.setFn = "structValueSet" -> structValueSet(h, val, to)
      [] val.setFn = "boolSliceValueSet" -> boolSliceValueSet(h, val, to)
      [] val.setFn = "int8SliceValueSet" -> int8SliceValueSet(h, val, to)
      [] val.setFn = "uint8SliceValueSet" -> uint8SliceValueSet(h, val, to)
      [] val.setFn = "int16SliceValueSet" -> int16SliceValueSet(h, val, to)
      [] val.setFn = "int32SliceValueSet" -> int32SliceValueSet(h, val, to)
      [] val.setFn = "int64SliceValueSet" -> int64SliceValueSet(h, val, to)
      [] val.setFn = "uint16SliceValueSet" -> uint16SliceValueSet(h, val, to)
      [] val.setFn = "uint32SliceValueSet" -> uint32SliceValueSet(h, val, to)
      [] val.setFn = "uint64SliceValueSet" -> uint64SliceValueSet(h, val, to)
      [] val.setFn = "intSliceValueSet" -> intSliceValueSet(h, val, to)
      [] val.setFn = "uintSliceValueSet" -> uintSliceValueSet(h, val, to)
      [] val.setFn = "float32SliceValueSet" -> float32SliceValueSet(h, val, to)
      [] val.setFn = "float64SliceValueSet" -> float64SliceValueSet(h, val, to)
      [] val.setFn = "complex64SliceValueSet" -> complex64SliceValueSet(h, val, to)
      [] val.setFn = "complex128SliceValueSet" -> complex128SliceValueSet(h, val, to)
      [] val.setFn = "stringSliceValueSet" -> stringSliceValueSet(h, val, to)
      [] val.setFn = "bytesSliceValueSet" -> bytesSliceValueSet(h, val, to)
      [] val.setFn = "sliceSliceValueSet" -> sliceSliceValueSet(h, val, to)
      [] val.setFn = "mapSliceValueSet" -> mapSliceValueSet(h, val, to)
      [] val.setFn = "structSliceValueSet" -> structSliceValueSet(h, val, to)

(***************************************************************************)
(* Caller-supplied decoders (func([]byte, any) error).  A decoder is handed*)
(* the text and a pointer to the bound value and does what it likes with   *)
(* them; the model has four:                                               *)
(*   "fail"      returns an error and writes nothing                       *)
(*   "writeFail" writes a value through the pointer, then returns an error *)
(*   "writeOk"   writes a value through the pointer and returns nil        *)
(*   "json"      is json.Unmarshal                                         *)
(***************************************************************************)
Decoders == {"fail", "writeFail", "writeOk", "json"}

RECURSIVE SampleOf(_)
\* The value the writing decoders store: not the zero value of the type.
SampleOf(t) ==
    CASE t.kind = "bool" -> VBool(TRUE)
      [] t.kind \in IntKinds -> IntValue(t.kind, SIntOf(3))
      [] t.kind \in FloatKinds -> VFloat(t.kind, FFin(FALSE, <<3>>, 0))
      [] t.kind \in ComplexKinds ->
            VComplex(t.kind, [re |-> FFin(FALSE, <<3>>, 0), im |-> FZero])
      [] t.kind = "string" -> VStr(<<"x">>)
      [] t.kind = "slice" -> VSlice(<<>>)
      [] t.kind = "map" -> VMap(<<>>)
      [] t.kind = "struct" ->
            VStruct([i \in 1..Len(StructFields(t)) |-> SampleOf(StructFields(t)[i].Type)])
      [] OTHER -> ZeroOf(t)

\* What json.Unmarshal decoded is in the target, whatever the error.
storeDecoded(target, r) == SRes(Store(r.h, target.loc, r.v), r.err)

\* val.decodeFn([]byte(to), target.Addr().Interface()): [h, err]
decodeFn(h, val, to, target) ==
    CASE val.decodeFn = "fail" -> SRes(h, "decoding error")
      [] val.decodeFn = "writeFail" ->
            SRes(Store(h, target.loc, SampleOf(target.typ)), "decoding error")
      [] val.decodeFn = "writeOk" ->
            SRes(Store(h, target.loc, SampleOf(target.typ)), "")
      [] val.decodeFn = "json" ->
            storeDecoded(target, Unmarshal(h, to, target.typ, Load(h, target.loc)))

\* x := val.get(); val.decodeFn([]byte(to), elemIfPtr(x).Addr().Interface())
decodeAt(x, val, to) == decodeFn(x.h, val, to, elemIfPtr(x.h, x.v))

\* A variant of Set: the built-in parser is run whatever decoder the node has.
SetBuiltIn(h, val, to) ==
    IF ~isInitialized(val) THEN SRes(h, "") ELSE setFn(h, val, to)

\* func (val *Value) Set(to string) error: [h, err]
Set(h, val, to) ==
    IF ~isInitialized(val) THEN SRes(h, "")
    ELSE IF val.decodeFn # "nil" THEN decodeAt(get(h, val), val, to)
    ELSE setFn(h, val, to)

(***************************************************************************)
(* Rendering: strconv.FormatBool / FormatInt / FormatUint,                 *)
(* base64.StdEncoding.EncodeToString and json.Marshal.                     *)
(***************************************************************************)
RECURSIVE lessBytes(_, _)
lessBytes(a, b) ==
    IF b = <<>> THEN FALSE
    ELSE IF a = <<>> THEN TRUE
    ELSE IF a[1] # b[1] THEN a[1] < b[1]
    ELSE lessBytes(Tail(a), Tail(b))

\* a < b for Go strings (bytewise).
LessStr(a, b) == lessBytes(stringBytes(a), stringBytes(b))

RECURSIVE SortKeys(_)
\* The keys of a map in the order json.Marshal writes them.
SortKeys(S) ==
    IF S = {} THEN <<>>
    ELSE LET k == CHOOSE k \in S : \A x \in S : x = k \/ LessStr(k, x)
         IN  <<k>> \o SortKeys(S \ {k})

FormatBool(b) == IF b THEN <<"t", "r", "u", "e">> ELSE <<"f", "a", "l", "s", "e">>

\* strconv.FormatUint(n, 10), n being the digits of the number.
FormatUint(n) == IF n = <<>> THEN <<"0">> ELSE [i \in 1..Len(n) |-> DigitChars[n[i] + 1]]

\* A variant of FormatInt: the sign is left out.
FormatIntAbs(n) == FormatUint(n.mag)

\* strconv.FormatInt(n, 10), n being [neg, mag].
FormatInt(n) == IF n.neg THEN <<"-">> \o FormatUint(n.mag) ELSE FormatUint(n.mag)

RECURSIVE Base64Encode(_)
\* bs is a sequence of byte values (VByte).
Base64Encode(bs) ==
    LET E(n) == B64Chars[n + 1]
    IN  IF bs = <<>> THEN <<>>
        ELSE IF Len(bs) = 1
        THEN << E(bs[1].v \div 4), E((bs[1].v % 4) * 16), "=", "=" >>
        ELSE IF Len(bs) = 2
        THEN << E(bs[1].v \div 4), E((bs[1].v % 4) * 16 + bs[2].v \div 16),
                E((bs[2].v % 16) * 4), "=" >>
        ELSE << E(bs[1].v \div 4), E((bs[1].v % 4) * 16 + bs[2].v \div 16),
                E((bs[2].v % 16) * 4 + bs[3].v \div 64), E(bs[3].v % 64) >>
             \o Base64Encode(Drop(bs, 3))

\* The escape \u00xx of a byte, in lower-case hexadecimal.
escapeByte(n) == <<"\\", "u", "0", "0", HexLower[(n \div 16) + 1], HexLower[(n % 16) + 1]>>

\* One rune of a string as json.Marshal writes it (encode.go appendString;
\* HTML escaping is on by default): the quote and the backslash after a
\* backslash, the short escapes, \u00xx for the other control characters and
\* for <, > and &, and the escapes of the line and paragraph separators.
escapeRuneOut(c) ==
    CASE c \in {"\"", "\\"} -> <<"\\", c>>
      [] c = "\n" -> <<"\\", "n">>
      [] c = "\r" -> <<"\\", "r">>
      [] c = "\t" -> <<"\\", "t">>
      [] c = "\f" -> <<"\\", "f">>
      [] c \in {"<", ">", "&"} -> escapeByte(CodePoint(c))
      [] Len(c) > 1 ->
            IF CodePoint(c) = 8 THEN <<"\\", "b">>
            ELSE IF CodePoint(c) < 32 THEN escapeByte(CodePoint(c))
            ELSE IF CodePoint(c) = 8232 THEN <<"\\", "u", "2", "0", "2", "8">>
            ELSE IF CodePoint(c) = 8233 THEN <<"\\", "u", "2", "0", "2", "9">>
            ELSE <<c>>
      [] OTHER -> <<c>>

RECURSIVE jsonEscape(_)
jsonEscape(s) == IF s = <<>> THEN <<>> ELSE escapeRuneOut(s[1]) \o jsonEscape(Tail(s))
Quote(s) == <<"\"">> \o jsonEscape(s) \o <<"\"">>

\* isEmptyValue of encoding/json.
isEmptyValue(v) ==
    CASE v.k = "string" -> v.v = <<>>
      [] v.k = "slice" -> Len(v.e) = 0
      [] v.k = "map" -> DOMAIN v.m = {}
      [] v.k = "bool" -> ~v.v
      [] v.k \in IntKinds -> Uint64(v) = <<>>
      [] v.k \in FloatKinds -> FloatIsZero(v.v)
      [] v.k = "ptr" -> v.a = 0
      [] OTHER -> FALSE

MRes(e, s) == [err |-> e, s |-> s]

\* floatEncoder of encoding/json: no text for an infinity or a NaN; the
\* shortest digits that read back as the float, in the format %e when the
\* float is below 1e-6 or not below 1e21 and in %f otherwise; an exponent of
\* two digits that starts with 0 loses the 0.
floatEncoder(f, bitSize) ==
    LET clean(b) == IF Len(b) >= 4 /\ b[Len(b) - 3] = "e" /\ b[Len(b) - 2] \in {"-", "+"}
                       /\ b[Len(b) - 1] = "0"
                    THEN SubSeq(b, 1, Len(b) - 2) \o <<b[Len(b)]>>
                    ELSE b
        text(g) == IF g.dp <= -6 \/ g.dp >= 22 THEN clean(fmtE(f.neg, g.d, g.dp))
                   ELSE fmtF(f.neg, g.d, g.dp)
    IN  IF f.cls # "fin" THEN MRes("unsupported value", <<>>)
        ELSE IF f.mant = <<>> THEN MRes("", fmtF(f.neg, <<>>, 0))
        ELSE MRes("", text(shortest(f, bitSize)))

RECURSIVE Marshal(_, _, _), marshalElems(_, _, _, _, _), marshalKeys(_, _, _, _, _),
          marshalFields(_, _, _, _, _)
\* json.Marshal of the value v of type t: [err, s].
Marshal(h, v, t) ==
    CASE t.kind = "bool" -> MRes("", FormatBool(v.v))
      [] t.kind \in IntKinds -> MRes("", FormatInt(Int64(v)))
      [] t.kind \in FloatKinds -> floatEncoder(v.v, Bits(t.kind))
      [] t.kind = "string" -> MRes("", Quote(v.v))
      [] t.kind = "ptr" ->
            IF v.a = 0 THEN MRes("", <<"n", "u", "l", "l">>) ELSE Marshal(h, h[v.a], t.elem)
      [] t.kind = "slice" ->
            IF v.isnil THEN MRes("", <<"n", "u", "l", "l">>)
            ELSE IF t.elem.kind = "uint8" THEN MRes("", Quote(Base64Encode(v.e)))
            ELSE marshalElems(h, v.e, t.elem, <<"[">>, TRUE)
      [] t.kind = "map" ->
            IF v.isnil THEN MRes("", <<"n", "u", "l", "l">>)
            ELSE marshalKeys(h, SortKeys(DOMAIN v.m), v, t.elem, <<"{">>)
      [] t.kind = "struct" -> marshalFields(h, 1, v, t, <<"{">>)
      [] OTHER -> MRes("unsupported type", <<>>)

marshalElems(h, es, t, acc, first) ==
    IF es = <<>> THEN MRes("", Append(acc, "]"))
    ELSE LET rest(r) ==
                 IF r.err # "" THEN r
                 ELSE marshalElems(h, Tail(es), t,
                                   acc \o (IF first THEN <<>> ELSE <<",">>) \o r.s, FALSE)
         IN  rest(Marshal(h, es[1], t))

marshalKeys(h, ks, v, t, acc) ==
    IF ks = <<>> THEN MRes("", Append(acc, "}"))
    ELSE LET rest(r) ==
                 IF r.err # "" THEN r
                 ELSE marshalKeys(h, Tail(ks), v, t,
                                  acc \o (IF Len(acc) = 1 THEN <<>> ELSE <<",">>)
                                      \o Quote(ks[1]) \o <<":">> \o r.s)
         IN  rest(Marshal(h, v.m[ks[1]], t))

marshalFields(h, i, v, t, acc) ==
    IF i > Len(StructFields(t)) THEN MRes("", Append(acc, "}"))
    ELSE LET rest(sf, r) ==
                 IF r.err # "" THEN r
                 ELSE marshalFields(h, i + 1, v, t,
                                    acc \o (IF Len(acc) = 1 THEN <<>> ELSE <<",">>)
                                        \o Quote(JsonKey(sf)) \o <<":">> \o r.s)
             field(sf) ==
                 IF JsonSkipped(sf) \/ (JsonOmitEmpty(sf) /\ isEmptyValue(v.f[i]))
                 THEN marshalFields(h, i + 1, v, t, acc)
                 ELSE rest(sf, Marshal(h, v.f[i], sf.Type))
         IN  field(StructFields(t)[i])

(***************************************************************************)
(* The built-in String functions: [h, s], the heap after val.get() and the *)
(* text.                                                                   *)
(***************************************************************************)
TRes(h, s) == [h |-> h, s |-> s]

\* elemIfPtr(x) of what val.get() returned, x, and the value it holds: [h, e, v].
heldAt(x, e) == [h |-> x.h, e |-> e, v |-> RVal(x.h, e)]
held(x) == heldAt(x, elemIfPtr(x.h, x.v))

boolText(x, w) == TRes(x.h, IF ~w THEN <<>> ELSE FormatBool(w))
boolHeld(x) == boolText(x, x.v.v)
boolValueString(h, val) == boolHeld(held(get(h, val)))

\* A variant of intValueString: zero is rendered like every other number.
intPlainText(x, w) == TRes(x.h, FormatInt(w))
intPlainHeld(x) == intPlainText(x, Int64(x.v))
intValueStringPlain(h, val) == intPlainHeld(held(get(h, val)))

intText(x, w) == TRes(x.h, IF w = SIntOf(0) THEN <<>> ELSE FormatInt(w))
intHeld(x) == intText(x, Int64(x.v))
intValueString(h, val) == intHeld(held(get(h, val)))

uintText(x, w) == TRes(x.h, IF w = <<>> THEN <<>> ELSE FormatUint(w))
uintHeld(x) == uintText(x, Uint64(x.v))
uintValueString(h, val) == uintHeld(held(get(h, val)))

float32Text(x, w) == TRes(x.h, IF FloatIsZero(w) THEN <<>> ELSE FormatFloat(w, "g", 32))
float32Held(x) == float32Text(x, x.v.v)
float32ValueString(h, val) == float32Held(held(get(h, val)))

float64Text(x, w) == TRes(x.h, IF FloatIsZero(w) THEN <<>> ELSE FormatFloat(w, "g", 64))
float64Held(x) == float64Text(x, x.v.v)
float64ValueString(h, val) == float64Held(held(get(h, val)))

complex64Text(x, w) == TRes(x.h, IF ComplexIsZero(w) THEN <<>> ELSE FormatComplex(w, 64))
complex64Held(x) == complex64Text(x, x.v.v)
complex64ValueString(h, val) == complex64Held(held(get(h, val)))

complex128Text(x, w) == TRes(x.h, IF ComplexIsZero(w) THEN <<>> ELSE FormatComplex(w, 128))
complex128Held(x) == complex128Text(x, x.v.v)
complex128ValueString(h, val) == complex128Held(held(get(h, val)))

stringValueString(h, val) ==
    LET of(x) == TRes(x.h, RVal(x.h, elemIfPtr(x.h, x.v)).v) IN of(get(h, val))

\* The text a String function leaves when it panics: no text at all.
Fault == <<"panic">>

\* Interface().([]byte) panics when the type of the field is not []byte itself.
bytesValueString(h, val) ==
    LET text(x, v) == TRes(x.h, IF Len(v) = 0 THEN <<>> ELSE Base64Encode(v))
        of(x, e) == IF e.typ # SliceOf(Prim("uint8")) THEN TRes(x.h, Fault)
                    ELSE text(x, RVal(x.h, e).e)
        at(x) == of(x, elemIfPtr(x.h, x.v))
    IN  at(get(h, val))

\* v.Len() of a map value.
MapLen(v) == Cardinality(DOMAIN v.m)

\* json.Marshal of the value held: [h, v, b].
marshalled(x) == [h |-> x.h, v |-> x.v, b |-> Marshal(x.h, x.v, x.e.typ)]

mapText(x) == TRes(x.h, IF MapLen(x.v) = 0 \/ x.b.err # "" THEN <<>> ELSE x.b.s)
mapValueString(h, val) == mapText(marshalled(held(get(h, val))))

\* A variant of structValueString: every encoding is shown.
structValueStringPlain(h, val) ==
    LET text(x, b) == TRes(x.h, IF b.err # "" THEN <<>> ELSE b.s)
        of(x) == text(x, Marshal(x.h, RVal(x.h, x.v), x.v.typ))
    IN  of(get(h, val))

structText(x, b) ==
    TRes(x.h, IF b.err # "" THEN <<>>
              ELSE IF b.s \in {<<"{", "}">>, <<"[", "]">>, <<"\"", "\"">>, <<"0">>,
                               <<"f", "a", "l", "s", "e">>}
              THEN <<>>
              ELSE b.s)
structTextAt(x) == structText(x, Marshal(x.h, RVal(x.h, x.v), x.v.typ))
structValueString(h, val) == structTextAt(get(h, val))

sliceText(x) == TRes(x.h, IF Len(x.v.e) = 0 \/ x.b.err # "" THEN <<>> ELSE x.b.s)
sliceValueString(h, val) == sliceText(marshalled(held(get(h, val))))

RECURSIVE Join(_)
\* strings.Join(li, ",")
Join(li) ==
    IF li = <<>> THEN <<>>
    ELSE IF Len(li) = 1 THEN li[1]
    ELSE li[1] \o <<",">> \o Join(Tail(li))

\* elemIfPtr(x).Complex() of an element x of a list: the number it holds, the
\* one a pointer leads to, or zero for a nil pointer.
complexOf(h, x) == IF x.k # "ptr" THEN x.v ELSE IF x.a = 0 THEN CZero ELSE h[x.a].v

complex64SliceValueString(h, val) ==
    LET item(hp, x) == <<"\"">> \o FormatComplex(complexOf(hp, x), 64) \o <<"\"">>
        text(x, v) == TRes(x.h, IF Len(v.e) = 0 THEN <<>>
                               ELSE <<"[">> \o Join([i \in 1..Len(v.e) |-> item(x.h, v.e[i])])
                                    \o <<"]">>)
        of(x) == text(x, RVal(x.h, elemIfPtr(x.h, x.v)))
    IN  of(get(h, val))

complex128SliceValueString(h, val) ==
    LET item(hp, x) == <<"\"">> \o FormatComplex(complexOf(hp, x), 128) \o <<"\"">>
        text(x, v) == TRes(x.h, IF Len(v.e) = 0 THEN <<>>
                               ELSE <<"[">> \o Join([i \in 1..Len(v.e) |-> item(x.h, v.e[i])])
                                    \o <<"]">>)
        of(x) == text(x, RVal(x.h, elemIfPtr(x.h, x.v)))
    IN  of(get(h, val))

\* val.stringFn(val)
stringFn(h, val) ==
    CASE val.stringFn = "boolValueString" -> boolValueString(h, val)
      [] val.stringFn = "intValueString" -> intValueString(h, val)
      [] val.stringFn = "uintValueString" -> uintValueString(h, val)
      [] val.stringFn = "float32ValueString" -> float32ValueString(h, val)
      [] val.stringFn = "float64ValueString" -> float64ValueString(h, val)
      [] val.stringFn = "complex64ValueString" -> complex64ValueString(h, val)
      [] val.stringFn = "complex128ValueString" -> complex128ValueString(h, val)
      [] val.stringFn = "stringValueString" -> stringValueString(h, val)
      [] val.stringFn = "bytesValueString" -> bytesValueString(h, val)
      [] val.stringFn = "mapValueString" -> mapValueString(h, val)
      [] val.stringFn = "structValueString" -> structValueString(h, val)
      [] val.stringFn = "sliceValueString" -> sliceValueString(h, val)
      [] val.stringFn = "complex64SliceValueString" -> complex64SliceValueString(h, val)
      [] val.stringFn = "complex128SliceValueString" -> complex128SliceValueString(h, val)

(***************************************************************************)
(* Caller-supplied encoders (func(any) ([]byte, error)); the model has     *)
(* three:                                                                  *)
(*   "fail"  returns an error                                              *)
(*   "const" returns the bytes of "custom"                                 *)
(*   "json"  is json.Marshal                                               *)
(***************************************************************************)
Encoders == {"fail", "const", "json"}

\* val.encodeFn(x) with x the value of rv: [err, s]
encodeFn(h, val, rv) ==
    CASE val.encodeFn = "fail" -> MRes("encoding error", <<>>)
      [] val.encodeFn = "const" -> MRes("", <<"c", "u", "s", "t", "o", "m">>)
      [] val.encodeFn = "json" -> Marshal(h, RVal(h, rv), rv.typ)

(***************************************************************************)
(* The methods of *Value.  Each is given the heap and returns the heap     *)
(* after the call together with its result.                                *)
(***************************************************************************)
\* func (val *Value) Path() []reflect.StructField; nil is the empty sequence
Path(val) == IF ~isInitialized(val) THEN <<>> ELSE val.fields

\* func (val *Value) Type() string
Type(val) == IF ~isInitialized(val) THEN "" ELSE val.typeName

\* func (val *Value) Get() any: [h, isnil, v], v being the value of the interface
Get(h, val) ==
    IF ~isInitialized(val) THEN [h |-> h, isnil |-> TRUE, v |-> VPtr(0)]
    ELSE LET of(x) == [h |-> x.h, isnil |-> FALSE, v |-> RVal(x.h, x.v)]
         IN  of(get(h, val))

\* b, err := val.encodeFn(val.get().Interface()); if err != nil { return "" }
encodedText(x, b) == TRes(x.h, IF b.err # "" THEN <<>> ELSE b.s)
encodedAt(x, val) == encodedText(x, encodeFn(x.h, val, x.v))

\* A variant of String: the built-in rendering whatever encoder the node has.
StringBuiltIn(h, val) ==
    IF ~isInitialized(val) THEN TRes(h, <<>>) ELSE stringFn(h, val)

\* func (val *Value) String() string: [h, s]
String(h, val) ==
    IF ~isInitialized(val) THEN TRes(h, <<>>)
    ELSE IF val.encodeFn # "nil"
         THEN encodedAt(get(h, val), val)
    ELSE stringFn(h, val)

\* A variant of SetEncoder: the encoder is installed in a node with no bound location too.
SetEncoderAlways(val, fn) == IF val.null THEN val ELSE [val EXCEPT !.encodeFn = fn]

\* func (val *Value) SetEncoder(fn): the node after the call
SetEncoder(val, fn) == IF ~isInitialized(val) THEN val ELSE [val EXCEPT !.encodeFn = fn]

\* func (val *Value) SetDecoder(fn): the node after the call
SetDecoder(val, fn) == IF ~isInitialized(val) THEN val ELSE [val EXCEPT !.decodeFn = fn]

\* func (val *Value) IsBoolFlag() bool
IsBoolFlag(val) == IF ~isInitialized(val) THEN FALSE ELSE val.isBool

(***************************************************************************)
(* Discovery.  A FilterResult is a bit field (uint32); a filter is a       *)
(* function of the caller's, modelled by a record [fk, arg, vote]:         *)
(*   "all"    votes vote for every node                                    *)
(*   "root"   votes vote for the node with an empty path                   *)
(*   "prefix" votes vote for a node whose last field's name starts with arg*)
(*   "get"    calls val.Get() and votes vote                               *)
(* and votes IncludeAndDescend otherwise.                                  *)
(***************************************************************************)
IncludeAndDescend == 0
IncludeNoDescend == 1
SkipAndDescend == 2
SkipNoDescend == 3
noDescendMask == 1
skipMask == 2

RECURSIVE BitOr(_, _), BitAnd(_, _)
\* a | b and a & b of unsigned integers.
BitOr(a, b) ==
    IF a = 0 THEN b
    ELSE IF b = 0 THEN a
    ELSE 2 * BitOr(a \div 2, b \div 2) + (IF a % 2 = 1 \/ b % 2 = 1 THEN 1 ELSE 0)
BitAnd(a, b) ==
    IF a = 0 \/ b = 0 THEN 0
    ELSE 2 * BitAnd(a \div 2, b \div 2) + (IF a % 2 = 1 /\ b % 2 = 1 THEN 1 ELSE 0)

HasPrefix(s, p) == Len(p) <= Len(s) /\ SubSeq(s, 1, Len(p)) = p

FilterFunc(fk, arg, vote) == [fk |-> fk, arg |-> arg, vote |-> vote]

\* cond(val) for the filter f: [h, r]
cond(h, f, val) ==
    CASE f.fk = "all" -> [h |-> h, r |-> f.vote]
      [] f.fk = "root" ->
            [h |-> h, r |-> IF Len(Path(val)) = 0 THEN f.vote ELSE IncludeAndDescend]
      [] f.fk = "prefix" ->
            LET named(p) == [h |-> h,
                             r |-> IF Len(p) > 0 /\ HasPrefix(p[Len(p)].Name, f.arg)
                                   THEN f.vote ELSE IncludeAndDescend]
            IN  named(Path(val))
      [] f.fk = "get" -> [h |-> Get(h, val).h, r |-> f.vote]

RECURSIVE filterLoopLast(_, _, _, _)
\* A variant of filterLoop: r = cond(val), the vote of the last filter alone.
filterLoopLast(h, val, fs, r) ==
    IF fs = <<>> THEN [h |-> h, r |-> r, calls |-> 0]
    ELSE LET called(x) == [x EXCEPT !.calls = @ + 1]
             rest(c) == called(filterLoopLast(c.h, val, Tail(fs), c.r))
         IN  rest(cond(h, Head(fs), val))

RECURSIVE filterLoop(_, _, _, _)
\* for _, cond := range filters { r |= cond(val) }: [h, r, calls], calls being
\* the number of filters that were called.
filterLoop(h, val, fs, r) ==
    IF fs = <<>> THEN [h |-> h, r |-> r, calls |-> 0]
    ELSE LET called(x) == [x EXCEPT !.calls = @ + 1]
             rest(c) == called(filterLoop(c.h, val, Tail(fs), BitOr(r, c.r)))
         IN  rest(cond(h, Head(fs), val))

\* A variant of Filter: the filters are asked about a nil node too.
FilterAlsoNil(h, val, fs) == filterLoop(h, val, fs, 0)

\* func Filter(val *Value, filters ...FilterFunc) (r FilterResult): [h, r, calls]
Filter(h, val, fs) ==
    IF val.null THEN [h |-> h, r |-> SkipNoDescend, calls |-> 0]
    ELSE filterLoop(h, val, fs, 0)

RECURSIVE recursive(_, _, _, _, _), recursiveFields(_, _, _, _, _, _, _)
\* A variant of recursive: a node that is skipped is not descended into either.
recursiveSkipStops(h, b, fieldsIndexes, fields, fs) ==
    LET descend(fr, t, here) ==
            IF fr.r # 0 THEN here
            ELSE IF t.kind # "struct" THEN here
            ELSE recursiveFields(b, fieldsIndexes, fields, fs, t, 1, here)
        filtered(val, fr) ==
            descend(fr, elemIfPtrType(PosType(b, fields)),
                    [values |-> IF BitAnd(fr.r, skipMask) = 0 THEN <<val>> ELSE <<>>,
                     h |-> fr.h,
                     seen |-> <<[ix |-> fieldsIndexes, val |-> val, r |-> fr.r,
                                 calls |-> fr.calls]>>])
        node(val) == filtered(val, Filter(h, val, fs))
    IN  node(newValue(b, fieldsIndexes, fields))

\* A variant of recursive: the position of each node is resolved (val.get()) when
\* the node is built.
recursiveEager(h, b, fieldsIndexes, fields, fs) ==
    LET descend(fr, t, here) ==
            IF BitAnd(fr.r, noDescendMask) # 0 THEN here
            ELSE IF t.kind # "struct" THEN here
            ELSE recursiveFields(b, fieldsIndexes, fields, fs, t, 1, here)
        filtered(val, fr) ==
            descend(fr, elemIfPtrType(PosType(b, fields)),
                    [values |-> IF BitAnd(fr.r, skipMask) = 0 THEN <<val>> ELSE <<>>,
                     h |-> fr.h,
                     seen |-> <<[ix |-> fieldsIndexes, val |-> val, r |-> fr.r,
                                 calls |-> fr.calls]>>])
        node(val) == filtered(val, Filter(IF val.null THEN h ELSE get(h, val).h, val, fs))
    IN  node(newValue(b, fieldsIndexes, fields))

\* A variant of recursive: the node of a record is appended after the nodes of
\* its fields.
recursivePostOrder(h, b, fieldsIndexes, fields, fs) ==
    LET own(val, fr, r) ==
            [r EXCEPT !.values = @ \o (IF BitAnd(fr.r, skipMask) = 0 THEN <<val>> ELSE <<>>)]
        descend(fr, t, here) ==
            IF BitAnd(fr.r, noDescendMask) # 0 THEN here
            ELSE IF t.kind # "struct" THEN here
            ELSE recursiveFields(b, fieldsIndexes, fields, fs, t, 1, here)
        filtered(val, fr) ==
            own(val, fr,
                descend(fr, elemIfPtrType(PosType(b, fields)),
                        [values |-> <<>>, h |-> fr.h,
                         seen |-> <<[ix |-> fieldsIndexes, val |-> val, r |-> fr.r,
                                     calls |-> fr.calls]>>]))
        node(val) == filtered(val, Filter(h, val, fs))
    IN  node(newValue(b, fieldsIndexes, fields))

\* func recursive(base, fieldsIndexes, fields, filters) []*Value:
\* [values, h, seen], seen being the calls of Filter in order: the position, the
\* node built for it, the decision and the number of filters that were called.
recursive(h, b, fieldsIndexes, fields, fs) ==
    LET descend(fr, t, here) ==
            IF BitAnd(fr.r, noDescendMask) # 0 THEN here
            ELSE IF t.kind # "struct" THEN here
            ELSE recursiveFields(b, fieldsIndexes, fields, fs, t, 1, here)
        filtered(val, fr) ==
            descend(fr, elemIfPtrType(PosType(b, fields)),
                    [values |-> IF BitAnd(fr.r, skipMask) = 0 THEN <<val>> ELSE <<>>,
                     h |-> fr.h,
                     seen |-> <<[ix |-> fieldsIndexes, val |-> val, r |-> fr.r,
                                 calls |-> fr.calls]>>])
        node(val) == filtered(val, Filter(h, val, fs))
    IN  node(newValue(b, fieldsIndexes, fields))

\* A variant of recursiveFields: the fields that are not exported are visited too.
recursiveFieldsAll(b, fieldsIndexes, fields, fs, t, i, acc) ==
    IF i > Len(StructFields(t)) THEN acc
    ELSE LET rest(r) == recursiveFields(b, fieldsIndexes, fields, fs, t, i + 1,
                                        [values |-> acc.values \o r.values, h |-> r.h,
                                         seen |-> acc.seen \o r.seen])
             field(sf) ==
                 rest(recursive(acc.h, b, Append(fieldsIndexes, i), Append(fields, sf), fs))
         IN  field(StructFields(t)[i])

\* for i := range t.NumField() { ... }, from field i on, acc being the result so far.
recursiveFields(b, fieldsIndexes, fields, fs, t, i, acc) ==
    IF i > Len(StructFields(t)) THEN acc
    ELSE LET rest(r) == recursiveFields(b, fieldsIndexes, fields, fs, t, i + 1,
                                        [values |-> acc.values \o r.values, h |-> r.h,
                                         seen |-> acc.seen \o r.seen])
             field(sf) ==
                 IF ~sf.Exported
                 THEN recursiveFields(b, fieldsIndexes, fields, fs, t, i + 1, acc)
                 ELSE rest(recursive(acc.h, b, Append(fieldsIndexes, i), Append(fields, sf), fs))
         IN  field(StructFields(t)[i])

(***************************************************************************)
(* The argument of New and Recursive (base any): [form, a, typ].           *)
(*   "nil"     the nil interface                                           *)
(*   "value"   a value that is not a pointer, of type typ                  *)
(*   "nilptr"  a nil pointer of type typ                                   *)
(*   "ptr"     the pointer (of type typ) to the cell a of the heap         *)
(***************************************************************************)
Root(form, a, t) == [form |-> form, a |-> a, typ |-> t]

\* A variant of Refused: a value that is not a pointer is taken as it is.
RefusedNilOnly(arg) == arg.form = "nil" \/ arg.form = "nilptr"

\* !v.CanSet() && (v.Kind() != reflect.Pointer || v.IsNil()): reflect.ValueOf never
\* gives a settable value.
Refused(arg) == arg.form = "nil" \/ arg.typ.kind # "ptr" \/ arg.form = "nilptr"

\* reflect.ValueOf(base) as the base of the nodes.
BaseOf(arg) == [valid |-> TRUE, a |-> arg.a, typ |-> arg.typ]

\* func New(base any) *Value
New(arg) == IF Refused(arg) THEN NilValue ELSE newValue(BaseOf(arg), <<>>, <<>>)

\* func Recursive(base any, filters ...FilterFunc) []*Value: [values, h, seen]
Recursive(h, arg, fs) ==
    IF Refused(arg) THEN [values |-> <<>>, h |-> h, seen |-> <<>>]
    ELSE recursive(h, BaseOf(arg), <<>>, <<>>, fs)

(***************************************************************************)
(* The texts handed to Set: for each kind of node a few texts of the       *)
(* notation, and some that do not parse.                                   *)
(***************************************************************************)
TextsOfType(t) ==
    CASE t.kind = "bool" -> {<<"t", "r", "u", "e">>, <<"0">>, <<"y", "e", "s">>}
      [] t.kind = "int8" ->
            {<<"-", "5">>, <<"0", "x", "7", "f">>, <<"1", "2", "8">>, <<"3", "0", "0", "x">>}
      [] t.kind = "uint8" -> {<<"7">>, <<"0", "b", "1", "1">>, <<"-", "1">>}
      [] t.kind = "int" -> {<<"2">>, <<"-", "0", "x", "1", "0">>, <<"9", "2", "2", "3", "3", "7", "2", "0", "3", "6", "8", "5", "4", "7", "7", "5", "8", "0", "8">>, <<"i", "n", "v", "a", "l", "i", "d">>}
      [] t.kind = "uint" -> {<<"2">>, <<"0", "b", "1", "1">>, <<"-", "1">>}
      [] t.kind = "float32" -> {<<"2">>, <<"0", ".", "1">>, <<"3", ".", "4", "0", "2", "8", "2", "3", "6", "e", "3", "8">>, <<"x", "1">>}
      [] t.kind = "float64" -> {<<"1", ".", "5">>, <<"0", "x", "1", "p", "-", "2">>, <<"1", "e", "4", "0", "0">>, <<"i", "n", "f">>}
      [] t.kind = "complex64" -> {<<"2">>, <<"1", "+", "2", "i">>, <<"1", "+", "i">>}
      [] t.kind = "complex128" -> {<<"(", "1", ".", "5", "-", "2", "e", "-", "7", "i", ")">>, <<"1", "e", "4", "0", "0", "+", "1", "i">>, <<"2", "i">>}
      [] t.kind = "string" -> {<<>>, <<"a", "<", "b">>}
      [] t.kind = "slice" ->
            IF t.elem.kind = "uint8" THEN {<<"a", "G", "k", "=", "\n">>, <<"a">>}
            ELSE {<<"[", "\"", "a", "\"", ",", " ", "\"", "b", "\"", "]">>, <<"[", "]">>, <<"[", "1", "]">>}
      [] t.kind = "map" -> {<<"{", "\"", "k", "\"", ":", " ", "\"", "v", "\"", "}">>, <<"{", "\"", "a", "\"", ":", "\"", "\\", "n", "\"", ",", "\"", "b", "\"", ":", "\"", "2", "\"", "}">>, <<"{", "\"", "k", "\"", ":", "1", "}">>, <<"{">>}
      [] t.kind = "struct" ->
            IF t.name = "TestStruct"
            THEN {<<"{", "\"", "V", "a", "l", "u", "e", "\"", ":", "\"", "v", "\"", "}">>, <<"{", "}">>, <<"{", "\"", "V", "a", "l", "u", "e", "\"", ":", "1", "}">>, <<"n", "o", "p", "e">>}
            ELSE IF t.name = "Input"
            THEN {<<"{", "\"", "F", "o", "o", "\"", ":", "\"", "f", "\"", "}">>, <<"{", "\"", "B", "a", "r", "\"", ":", "\"", "b", "\"", ",", "\"", "B", "a", "z", "\"", ":", "7", "}">>, <<"{">>}
            ELSE {<<"{", "\"", "P", "t", "r", "T", "o", "S", "l", "i", "c", "e", "O", "f", "V", "a", "l", "u", "e", "s", "\"", ":", "[", "]", "}">>, <<"{", "\"", "V", "a", "l", "u", "e", "\"", ":", "\"", "v", "\"", "}">>, <<"{", "}">>, <<"x">>}
      [] OTHER -> {<<"x">>}

\* The texts tried on a node: those of the element for a list, those of the value otherwise.
Texts(val) ==
    IF ~isInitialized(val) THEN {<<"t", "r", "u", "e">>, <<"x">>}
    ELSE LET t == elemIfPtrType(typ(val))
         IN  IF t.kind = "slice" /\ t.elem.kind # "uint8"
             THEN TextsOfType(elemIfPtrType(t.elem))
             ELSE TextsOfType(t)

(***************************************************************************)
(* The state machine.  The caller builds a value, hands a pointer to it to *)
(* Recursive or New, and then calls the methods of the nodes it was given. *)
(***************************************************************************)
Op(op, n, to, err, out) == [op |-> op, n |-> n, to |-> to, err |-> err, out |-> out]
NoOp == Op("none", 0, <<>>, "", <<>>)

\* The node a handle names: 0 is the zero Value, i the i-th node returned.
NodeAt(n) == IF n = 0 THEN zeroVal ELSE nodes[n]

\* A root that is a pointer to a zero value of type t, alone on the heap.
ZeroRoot(t) == [root |-> Root("ptr", 1, PtrTo(t)), heap |-> <<ZeroOf(t)>>]

\* The arguments New and Recursive refuse: nil, a value that is not a pointer, a nil pointer.
RefusedRoots ==
    { [root |-> Root("nil", 0, TChan), heap |-> <<>>],
      [root |-> Root("value", 0, TInput), heap |-> <<>>],
      [root |-> Root("nilptr", 0, PtrTo(TInput)), heap |-> <<>>] }

InitWith(roots, chains) ==
    /\ \E r \in roots : root = r.root /\ heap = r.heap
    /\ filters \in chains
    /\ nodes = <<>>
    /\ seen = <<>>
    /\ zeroVal = ZeroValue
    /\ pre = heap
    /\ last = NoOp
    /\ ops = 0
    /\ stack = <<>>

DoRecursive ==
    /\ last.op = "none"
    /\ \E r \in {Recursive(heap, root, filters)} :
           /\ nodes' = r.values
           /\ heap' = r.h
           /\ seen' = r.seen
    /\ pre' = heap
    /\ last' = Op("Recursive", 0, <<>>, "", <<>>)
    /\ UNCHANGED <<root, stack, filters, zeroVal, ops>>

DoNew ==
    /\ last.op = "none"
    /\ nodes' = <<New(root)>>
    /\ pre' = heap
    /\ last' = Op("New", 0, <<>>, "", <<>>)
    /\ UNCHANGED <<root, stack, heap, filters, seen, zeroVal, ops>>

Ready == last.op # "none" /\ ops < MaxOps

DoSet(n, to) ==
    /\ Ready
    /\ \E r \in {Set(heap, NodeAt(n), to)} :
           /\ heap' = r.h
           /\ pre' = heap
           /\ last' = Op("Set", n, to, r.err, <<>>)
    /\ ops' = ops + 1
    /\ UNCHANGED <<root, stack, filters, nodes, seen, zeroVal>>

DoGet(n) ==
    /\ Ready
    /\ \E r \in {Get(heap, NodeAt(n))} :
           /\ heap' = r.h
           /\ pre' = heap
           /\ last' = Op("Get", n, <<>>, "", <<r.isnil, r.v>>)
    /\ ops' = ops + 1
    /\ UNCHANGED <<root, stack, filters, nodes, seen, zeroVal>>

DoString(n) ==
    /\ Ready
    /\ \E r \in {String(heap, NodeAt(n))} :
           /\ heap' = r.h
           /\ pre' = heap
           /\ last' = Op("String", n, <<>>, "", r.s)
    /\ ops' = ops + 1
    /\ UNCHANGED <<root, stack, filters, nodes, seen, zeroVal>>

DoSetEncoder(n, fn) ==
    /\ Ready
    /\ IF n = 0
       THEN zeroVal' = SetEncoder(zeroVal, fn) /\ UNCHANGED nodes
       ELSE nodes' = [nodes EXCEPT ![n] = SetEncoder(@, fn)] /\ UNCHANGED zeroVal
    /\ pre' = heap
    /\ last' = Op("SetEncoder", n, <<>>, "", <<fn>>)
    /\ ops' = ops + 1
    /\ UNCHANGED <<root, stack, heap, filters, seen>>

DoSetDecoder(n, fn) ==
    /\ Ready
    /\ IF n = 0
       THEN zeroVal' = SetDecoder(zeroVal, fn) /\ UNCHANGED nodes
       ELSE nodes' = [nodes EXCEPT ![n] = SetDecoder(@, fn)] /\ UNCHANGED zeroVal
    /\ pre' = heap
    /\ last' = Op("SetDecoder", n, <<>>, "", <<fn>>)
    /\ ops' = ops + 1
    /\ UNCHANGED <<root, stack, heap, filters, seen>>

DoPath(n) ==
    /\ Ready
    /\ pre' = heap
    /\ last' = Op("Path", n, <<>>, "", Path(NodeAt(n)))
    /\ ops' = ops + 1
    /\ UNCHANGED <<root, stack, heap, filters, nodes, seen, zeroVal>>

DoType(n) ==
    /\ Ready
    /\ pre' = heap
    /\ last' = Op("Type", n, <<>>, "", <<Type(NodeAt(n))>>)
    /\ ops' = ops + 1
    /\ UNCHANGED <<root, stack, heap, filters, nodes, seen, zeroVal>>

DoIsBoolFlag(n) ==
    /\ Ready
    /\ pre' = heap
    /\ last' = Op("IsBoolFlag", n, <<>>, "", <<IsBoolFlag(NodeAt(n))>>)
    /\ ops' = ops + 1
    /\ UNCHANGED <<root, stack, heap, filters, nodes, seen, zeroVal>>

Handles == 1..Len(nodes)

(***************************************************************************)
(* Spec: pointers to zero values of the test types, no filters, the        *)
(* built-in notations.                                                     *)
(***************************************************************************)
ElemTypes == {TBool, TInt8, TString, TStrings, TStringMap, TTestStruct}

Roots == {ZeroRoot(TGen(e)) : e \in ElemTypes} \cup {ZeroRoot(TNested), ZeroRoot(TInput)}

Init == InitWith(Roots, {<<>>})

Next ==
    \/ DoRecursive
    \/ DoNew
    \/ \E n \in Handles : \E to \in Texts(NodeAt(n)) : DoSet(n, to)
    \/ \E n \in Handles : DoGet(n)
    \/ \E n \in Handles : DoString(n)

Spec == Init /\ [][Next]_vars

(***************************************************************************)
(* What the caller sees of the structure, without calling the package.     *)
(***************************************************************************)
RECURSIVE Deep(_, _)
\* The value v with every pointer replaced by what it points to.
Deep(h, v) ==
    CASE v.k = "ptr" ->
            IF v.a = 0 THEN [k |-> "nil"] ELSE [k |-> "ref", to |-> Deep(h, h[v.a])]
      [] v.k = "struct" -> [k |-> "struct", f |-> [i \in DOMAIN v.f |-> Deep(h, v.f[i])]]
      [] v.k = "slice" ->
            [k |-> "slice", isnil |-> v.isnil, e |-> [i \in DOMAIN v.e |-> Deep(h, v.e[i])]]
      [] v.k = "map" ->
            [k |-> "map", isnil |-> v.isnil, m |-> [x \in DOMAIN v.m |-> Deep(h, v.m[x])]]
      [] OTHER -> v

\* The whole structure behind the root pointer.
Structure(h) == IF root.form = "ptr" THEN Deep(h, h[root.a]) ELSE [k |-> "nil"]

RECURSIVE peekLoop(_, _, _, _)
\* The field a path leads to, read without allocating: [reach, v, t]; reach is
\* false when a nil pointer stands on the way.
peekLoop(h, v, t, index) ==
    IF index = <<>> THEN [reach |-> TRUE, v |-> v, t |-> t]
    ELSE IF t.kind = "ptr"
         THEN IF v.a = 0 THEN [reach |-> FALSE, v |-> v, t |-> t]
              ELSE peekLoop(h, h[v.a], t.elem, index)
    ELSE peekLoop(h, v.f[Head(index)], StructFields(t)[Head(index)].Type, Tail(index))

Peek(h, val) == peekLoop(h, VPtr(val.base.a), val.base.typ, val.fieldsIndexes)

\* The value bound to a node, a pointer followed; the zero value when the
\* position does not exist yet or holds a nil pointer.
Cur(h, val) ==
    LET p == Peek(h, val)
        zero == Deep(h, ZeroOf(elemIfPtrType(typ(val))))
    IN  IF ~p.reach THEN zero
        ELSE IF p.t.kind = "ptr" THEN (IF p.v.a = 0 THEN zero ELSE Deep(h, h[p.v.a]))
        ELSE Deep(h, p.v)

\* A nil pointer stands on the path of the node, or at its position.
ThroughNil(h, val) ==
    LET p == Peek(h, val) IN ~p.reach \/ (p.t.kind = "ptr" /\ p.v.a = 0)

\* The node the last operation was called on, and the kinds of nodes.
LastNode == NodeAt(last.n)
OnNode == last.n \in 1..Len(nodes) /\ isInitialized(LastNode)
SetOk == last.op = "Set" /\ last.err = "" /\ OnNode
SetFailed == last.op = "Set" /\ last.err # "" /\ OnNode
BuiltIn(val) == val.decodeFn = "nil"
IsListNode(val) ==
    val.stringFn \in {"sliceValueString", "complex64SliceValueString",
                      "complex128SliceValueString"}
IsDocNode(val) == val.setFn \in {"mapValueSet", "structValueSet"}
IsLeaf(val) == elemIfPtrType(typ(val)).kind # "struct"

\* The parse function of parse.go for a kind wider than 8 bits.
parseOfKind(kind, to) ==
    CASE kind = "int" -> parseInt(to)
      [] kind = "uint" -> parseUint(to)
      [] kind = "int16" -> parseInt16(to)
      [] kind = "int32" -> parseInt32(to)
      [] kind = "int64" -> parseInt64(to)
      [] kind = "uint16" -> parseUint16(to)
      [] kind = "uint32" -> parseUint32(to)
      [] kind = "uint64" -> parseUint64(to)

\* What a text of the element notation decodes to, for the element type t of a list
\* or the type t of a value.
Decoded(t, to) ==
    CASE t.kind = "bool" -> VBool(ParseBool(to).v)
      [] t.kind = "int8" -> VInt("int8", parseInt8(to).v)
      [] t.kind = "uint8" -> VInt("uint8", parseUint8(to).v)
      [] t.kind \in WideKinds -> VInt(t.kind, parseOfKind(t.kind, to).v)
      [] t.kind \in FloatKinds -> VFloat(t.kind, ParseFloat(to, Bits(t.kind)).v)
      [] t.kind \in ComplexKinds -> VComplex(t.kind, ParseComplex(to, IF t.kind = "complex64" THEN 64 ELSE 128).v)
      [] t.kind = "string" -> VStr(to)
      [] t.kind = "slice" /\ t.elem.kind = "uint8" -> Deep(<<>>, VSlice(Base64Decode(to).v))
      [] OTHER -> LET r == Unmarshal(<<>>, to, t, ZeroOf(t)) IN Deep(r.h, r.v)

\* The element a list node decodes from a text, as it stands in the list.
DecodedElem(val, to) ==
    LET et == elemIfPtrType(typ(val)).elem
        x == Decoded(elemIfPtrType(et), to)
    IN  IF et.kind = "ptr" THEN [k |-> "ref", to |-> x] ELSE x

\* C1: after a successful Set(t) on a list node that uses its built-in notation,
\* the bound list is the list before the call with exactly one element, the one
\* decoded from t, appended at its end.
C1_ListSetAppendsOne ==
    (SetOk /\ BuiltIn(LastNode) /\ IsListNode(LastNode))
        => Cur(heap, LastNode).e
             = Append(Cur(pre, LastNode).e, DecodedElem(LastNode, last.to))

\* A second Set on a list behind a pointer, of pointer elements: two different
\* elements, in the order of the calls.
C1_Witness ==
    /\ SetOk /\ BuiltIn(LastNode) /\ IsListNode(LastNode)
    /\ typ(LastNode).kind = "ptr" /\ typ(LastNode).elem.elem.kind = "ptr"
    /\ Len(Cur(pre, LastNode).e) = 1
    /\ Len(Cur(heap, LastNode).e) = 2
    /\ Cur(heap, LastNode).e[1] # Cur(heap, LastNode).e[2]

\* C2: after a successful Set(D) on a map node or a record node that uses its
\* built-in notation, the bound value is exactly what D decodes to into a zero
\* value of the type: nothing of the value before the call is left.
C2_DocSetReplaces ==
    (SetOk /\ BuiltIn(LastNode) /\ IsDocNode(LastNode))
        => Cur(heap, LastNode) = Decoded(elemIfPtrType(typ(LastNode)), last.to)

\* A map that held keys the new document does not name.
C2_Witness ==
    /\ SetOk /\ BuiltIn(LastNode) /\ LastNode.setFn = "mapValueSet"
    /\ DOMAIN Cur(pre, LastNode).m # {}
    /\ \E x \in DOMAIN Cur(pre, LastNode).m : x \notin DOMAIN Cur(heap, LastNode).m

\* C3: when Set returns an error on a node that uses its built-in notation, the
\* caller's memory is what it was before the call: no value changed, no list
\* grew, no pointer was allocated.
C3_FailedSetChangesNothing ==
    (SetFailed /\ BuiltIn(LastNode)) => heap = pre

\* A failed Set on a node behind a nil pointer, which is still nil.
C3_Witness ==
    SetFailed /\ BuiltIn(LastNode) /\ ~Peek(heap, LastNode).reach

\* The position k fields down the path of a node.
Ancestor(val, k) ==
    [val EXCEPT !.fieldsIndexes = SubSeq(val.fieldsIndexes, 1, k),
                !.fields = SubSeq(val.fields, 1, k)]

\* The record that the pointer at an ancestor position points to.
RecordAt(h, anc) == h[Peek(h, anc).v.a]

\* C5: after a successful Set on a field node whose path crossed a nil pointer to
\* a record, every pointer on the path points to a record, the targeted field
\* holds the value decoded from the text, and in each record the call allocated
\* every field off the path has the zero value of its type (a pointer is nil).
C5_SetThroughNilAllocates ==
    (SetOk /\ BuiltIn(LastNode) /\ ~Peek(pre, LastNode).reach)
        => /\ Peek(heap, LastNode).reach
           /\ ~ThroughNil(heap, LastNode)
           /\ Cur(heap, LastNode)
                = (IF IsListNode(LastNode)
                   THEN [k |-> "slice", isnil |-> FALSE,
                         e |-> <<DecodedElem(LastNode, last.to)>>]
                   ELSE Decoded(elemIfPtrType(typ(LastNode)), last.to))
           /\ \A k \in 0..(Len(LastNode.fieldsIndexes) - 1) :
                LET anc == Ancestor(LastNode, k)
                    t == elemIfPtrType(typ(anc))
                IN  ThroughNil(pre, anc) /\ typ(anc).kind = "ptr"
                      => \A j \in 1..Len(StructFields(t)) :
                            j # LastNode.fieldsIndexes[k + 1]
                              => RecordAt(heap, anc).f[j] = ZeroOf(StructFields(t)[j].Type)

\* A Set three fields down, through two nil pointers.
C5_Witness ==
    /\ SetOk /\ BuiltIn(LastNode)
    /\ Len(LastNode.fieldsIndexes) = 3
    /\ ThroughNil(pre, Ancestor(LastNode, 1))
    /\ ~ThroughNil(heap, Ancestor(LastNode, 2))
    /\ Cur(heap, LastNode) # Cur(pre, LastNode)

\* What the caller reads in the field a node is bound to, the field alone: a
\* pointer to a record is nil or set, a record is a record, anything else is its
\* value.  A field that does not exist yet reads as the zero value of its type.
View(h, val) ==
    LET p == Peek(h, val)
        t == typ(val)
        raw == IF p.reach THEN p.v ELSE ZeroOf(t)
    IN  IF t.kind = "ptr"
        THEN (IF raw.a = 0 THEN [k |-> "nil"]
              ELSE IF t.elem.kind = "struct" THEN [k |-> "set"]
              ELSE Deep(h, raw))
        ELSE IF t.kind = "struct" THEN [k |-> "record"]
        ELSE Deep(h, raw)

RECURSIVE PatchPath(_, _, _, _)
\* The structure d of type t with the field at the end of a path replaced by nv,
\* a nil pointer on the path replaced by a pointer to a zero record.
PatchPath(d, t, index, nv) ==
    IF index = <<>> THEN nv
    ELSE IF t.kind = "ptr"
         THEN [k |-> "ref",
               to |-> PatchPath(IF d.k = "nil" THEN Deep(<<>>, ZeroOf(t.elem)) ELSE d.to,
                                t.elem, index, nv)]
    ELSE [d EXCEPT !.f[Head(index)] =
                      PatchPath(@, StructFields(t)[Head(index)].Type, Tail(index), nv)]

\* C6, as stated: a successful Set through a leaf node changes the field that node
\* is bound to and no other: the field of every other node reads as before.
C6_OnlyOwnField ==
    (SetOk /\ BuiltIn(LastNode) /\ IsLeaf(LastNode))
        => \A m \in 1..Len(nodes) :
              m # last.n => View(heap, nodes[m]) = View(pre, nodes[m])

\* C6, amended: a successful Set through a leaf node changes the field that node
\* is bound to and the nil pointers on its path, which come to point to zero
\* records; the rest of the structure is as before.
C6_OnlyOwnPath ==
    (SetOk /\ BuiltIn(LastNode) /\ IsLeaf(LastNode))
        => Structure(heap)
             = PatchPath(Structure(pre), root.typ.elem, LastNode.fieldsIndexes,
                         Deep(heap, Peek(heap, LastNode).v))

\* A Set through a leaf whose parent pointer was nil, while another leaf holds a
\* value an earlier Set gave it.
C6_Witness ==
    /\ SetOk /\ BuiltIn(LastNode) /\ IsLeaf(LastNode)
    /\ Len(LastNode.fieldsIndexes) >= 2
    /\ ThroughNil(pre, Ancestor(LastNode, Len(LastNode.fieldsIndexes) - 1))
    /\ Cur(heap, LastNode) # Cur(pre, LastNode)
    /\ \E m \in 1..Len(nodes) :
          /\ m # last.n /\ IsLeaf(nodes[m])
          /\ Cur(pre, nodes[m]) # Deep(<<>>, ZeroOf(elemIfPtrType(typ(nodes[m]))))
          /\ Cur(heap, nodes[m]) = Cur(pre, nodes[m])

(***************************************************************************)
(* SpecFilter: discovery under every chain of at most MaxFilters filters.  *)
(***************************************************************************)
Votes == {IncludeAndDescend, IncludeNoDescend, SkipAndDescend, SkipNoDescend}

FilterSet ==
    {FilterFunc("all", <<>>, v) : v \in Votes}
        \cup {FilterFunc("root", <<>>, v) : v \in Votes \ {IncludeAndDescend}}
        \cup {FilterFunc("prefix", <<"S", "k", "i", "p">>, v) : v \in Votes \ {IncludeAndDescend}}
        \cup {FilterFunc("prefix", <<"S", "t", "r", "u", "c", "t">>, v) : v \in Votes \ {IncludeAndDescend}}
        \cup {FilterFunc("get", <<>>, IncludeAndDescend)}

Chains == UNION {[1..k -> FilterSet] : k \in 0..MaxFilters}

FilterRoots ==
    { ZeroRoot(TNested), ZeroRoot(THidden),
      ZeroRoot(TGen(TChan)), ZeroRoot(TGen(PtrTo(TTestStruct))) }

InitFilter == InitWith(FilterRoots, Chains)

NextFilter == DoRecursive \/ DoNew

SpecFilter == InitFilter /\ [][NextFilter]_vars

\* The filters of the chain only inspect the node: none calls Get, String or Set.
Inspecting == \A k \in 1..Len(filters) : filters[k].fk # "get"

\* C7: Recursive and New leave the caller's memory as it was, whenever the filters
\* only inspect the node; a nil pointer to a record is still nil.
C7_DiscoveryChangesNothing ==
    (last.op \in {"Recursive", "New"} /\ Inspecting) => heap = pre

\* Recursive has returned nodes for the fields of a record behind a nil pointer,
\* and the pointer is nil.
C7_Witness ==
    /\ last.op = "Recursive" /\ Inspecting /\ Len(filters) > 0
    /\ \E n \in 1..Len(nodes) :
          Len(nodes[n].fieldsIndexes) = 3 /\ ~Peek(heap, nodes[n]).reach

\* The permutations of a sequence.
Perms(s) ==
    { [i \in 1..Len(s) |-> s[p[i]]] :
        p \in {q \in [1..Len(s) -> 1..Len(s)] : \A i, j \in 1..Len(s) : q[i] = q[j] => i = j} }

\* A vote has the skip bit, the no-descend bit.
Skips(r) == BitAnd(r, skipMask) # 0
Stops(r) == BitAnd(r, noDescendMask) # 0

\* The positions of the nodes returned, and those Filter was called for.
NodePositions == {nodes[n].fieldsIndexes : n \in 1..Len(nodes)}
SeenPositions == {seen[i].ix : i \in 1..Len(seen)}
Below(ix, q) == Len(q) > Len(ix) /\ SubSeq(q, 1, Len(ix)) = ix

\* The exported fields of the record a node is bound to (none when it is no record).
ExportedFields(val) ==
    LET t == elemIfPtrType(typ(val))
    IN  IF t.kind # "struct" THEN {}
        ELSE {j \in 1..Len(StructFields(t)) : StructFields(t)[j].Exported}

\* C9: for every node Recursive built and every order of the chain, the decision
\* is the same; the node is skipped iff some filter votes skip, and not descended
\* into iff some filter votes no-descend; one vote of skip+no-descend keeps the
\* node and everything below it out of the result; the empty chain includes and
\* descends.
C9_VotesCombineByOr ==
    last.op = "Recursive" =>
        \A i \in 1..Len(seen) :
            LET val == seen[i].val
                r == Filter(heap, val, filters).r
                vote(k) == cond(heap, filters[k], val).r
            IN  ~val.null =>
                  /\ \A fs \in Perms(filters) : Filter(heap, val, fs).r = r
                  /\ Skips(r) <=> \E k \in 1..Len(filters) : Skips(vote(k))
                  /\ Stops(r) <=> \E k \in 1..Len(filters) : Stops(vote(k))
                  /\ Skips(r) <=> seen[i].ix \notin NodePositions
                  /\ Stops(r) => \A q \in SeenPositions : ~Below(seen[i].ix, q)
                  /\ (\E k \in 1..Len(filters) : vote(k) = SkipNoDescend)
                        => \A q \in NodePositions : q # seen[i].ix /\ ~Below(seen[i].ix, q)
                  /\ filters = <<>> => r = IncludeAndDescend

\* Two filters that disagree on a node with fields: one votes include+descend,
\* the other skip+no-descend, in this order.
C9_Witness ==
    /\ last.op = "Recursive" /\ Len(filters) = 2
    /\ \E i \in 1..Len(seen) :
          /\ ~seen[i].val.null
          /\ ExportedFields(seen[i].val) # {}
          /\ cond(heap, filters[1], seen[i].val).r = SkipNoDescend
          /\ cond(heap, filters[2], seen[i].val).r = IncludeAndDescend
          /\ seen[i].ix \notin NodePositions

\* C10: a node the chain votes skip+descend is not in the result and each of its
\* exported fields is visited; a node the chain votes include+no-descend is in the
\* result and no position below it is visited or returned.
C10_AxesIndependent ==
    last.op = "Recursive" =>
        \A i \in 1..Len(seen) :
            LET val == seen[i].val
                r == Filter(heap, val, filters).r
            IN  ~val.null =>
                  /\ r = SkipAndDescend =>
                        /\ seen[i].ix \notin NodePositions
                        /\ \A j \in ExportedFields(val) :
                              Append(seen[i].ix, j) \in SeenPositions
                  /\ r = IncludeNoDescend =>
                        /\ seen[i].ix \in NodePositions
                        /\ \A q \in SeenPositions \cup NodePositions : ~Below(seen[i].ix, q)

\* A record that is skipped while a field of it is returned, and a record that is
\* returned while none of its fields is visited.
C10_Witness ==
    /\ last.op = "Recursive"
    /\ \E i \in 1..Len(seen) :
          /\ ~seen[i].val.null
          /\ Filter(heap, seen[i].val, filters).r = SkipAndDescend
          /\ \E q \in NodePositions : Below(seen[i].ix, q)
    /\ \E i \in 1..Len(seen) :
          /\ ~seen[i].val.null
          /\ Filter(heap, seen[i].val, filters).r = IncludeNoDescend
          /\ ExportedFields(seen[i].val) # {}

(***************************************************************************)
(* SpecInert: the methods called on nodes with no bound location: the zero *)
(* Value, and the nil *Value that New returns for an argument it refuses.  *)
(***************************************************************************)
InertHandles == {n \in 0..Len(nodes) : ~isInitialized(NodeAt(n))}

InitInert == InitWith(RefusedRoots \cup {ZeroRoot(TInput)}, {<<>>})

NextInert ==
    \/ DoRecursive
    \/ DoNew
    \/ \E n \in InertHandles : \E to \in Texts(NodeAt(n)) : DoSet(n, to)
    \/ \E n \in InertHandles : DoGet(n)
    \/ \E n \in InertHandles : DoString(n)
    \/ \E n \in InertHandles : \E fn \in Encoders : DoSetEncoder(n, fn)
    \/ \E n \in InertHandles : \E fn \in Decoders : DoSetDecoder(n, fn)
    \/ \E n \in InertHandles : DoPath(n)
    \/ \E n \in InertHandles : DoType(n)
    \/ \E n \in InertHandles : DoIsBoolFlag(n)

SpecInert == InitInert /\ [][NextInert]_vars

\* The last operation was a method called on a node with no bound location.
OnInert ==
    /\ last.op \notin {"none", "Recursive", "New"}
    /\ last.n \in 0..Len(nodes)
    /\ ~isInitialized(LastNode)

\* C8: a method called on a zero Value or on a nil *Value changes nothing, neither
\* the caller's memory nor the node, and answers: Path() nothing, Type() "",
\* Get() nil, String() "", Set(t) no error, IsBoolFlag() false.
C8_InertNode ==
    OnInert =>
        /\ heap = pre
        /\ zeroVal = ZeroValue
        /\ \A n \in 1..Len(nodes) : nodes[n].null => nodes[n] = NilValue
        /\ last.err = ""
        /\ last.op = "Path" => last.out = <<>>
        /\ last.op = "Type" => last.out = <<"">>
        /\ last.op = "Get" => last.out[1]
        /\ last.op = "String" => last.out = <<>>
        /\ last.op = "IsBoolFlag" => last.out = <<FALSE>>

\* An encoder and a decoder have been handed to the zero Value, or to a nil *Value.
C8_Witness ==
    /\ OnInert /\ ops = 2
    /\ last.op \in {"SetEncoder", "SetDecoder", "Set"}
    /\ (last.n = 0 \/ LastNode.null)

(***************************************************************************)
(* SpecCodec: nodes with a decoder or an encoder of the caller's.          *)
(***************************************************************************)
InitCodec == InitWith({ZeroRoot(TInput), ZeroRoot(TGen(TString))}, {<<>>})

NextCodec ==
    \/ DoRecursive
    \/ DoNew
    \/ \E n \in Handles : \E fn \in Decoders : DoSetDecoder(n, fn)
    \/ \E n \in Handles : \E fn \in Encoders : DoSetEncoder(n, fn)
    \/ \E n \in Handles : \E to \in Texts(NodeAt(n)) : DoSet(n, to)
    \/ \E n \in Handles : DoString(n)

SpecCodec == InitCodec /\ [][NextCodec]_vars

\* C4, as stated: when Set returns an error on a node with a decoder of the
\* caller's, the value bound to the node is what it was before the call.
C4_FailedDecoderChangesNothing ==
    (SetFailed /\ ~BuiltIn(LastNode)) => Cur(heap, LastNode) = Cur(pre, LastNode)

(***************************************************************************)
(* The order and the paths of the nodes Recursive returns.                 *)
(***************************************************************************)
\* The position p is an ancestor of q or, where they part, names an earlier field.
PreOrderBefore(p, q) ==
    \/ Below(p, q)
    \/ \E k \in 1..Len(p) :
          /\ k <= Len(q)
          /\ SubSeq(p, 1, k - 1) = SubSeq(q, 1, k - 1)
          /\ p[k] < q[k]

\* The position q is p or lies below it.
AtOrBelow(p, q) == q = p \/ Below(p, q)

\* The path of a node is the declared fields its indexes name, one per step.
PathFollowsType(val) ==
    /\ Len(Path(val)) = Len(val.fieldsIndexes)
    /\ \A k \in 1..Len(val.fieldsIndexes) :
          LET t == elemIfPtrType(typ(Ancestor(val, k - 1)))
          IN  /\ t.kind = "struct"
              /\ val.fieldsIndexes[k] \in 1..Len(StructFields(t))
              /\ Path(val)[k] = StructFields(t)[val.fieldsIndexes[k]]

\* C11: the nodes Recursive returns are in pre-order over the declared type: a
\* record's node comes before the nodes below it, the nodes below one position are
\* contiguous, sibling fields come in declaration order; the first position
\* visited is the root with the empty path, every other position visited is a
\* visited position extended by one field, and the path of each node names the
\* declared fields of its indexes.
C11_PreOrder ==
    last.op = "Recursive" =>
        /\ \A i, j \in 1..Len(nodes) :
              i < j => PreOrderBefore(nodes[i].fieldsIndexes, nodes[j].fieldsIndexes)
        /\ \A i, j, k \in 1..Len(nodes) : \A q \in SeenPositions :
              (i < k /\ k < j /\ AtOrBelow(q, nodes[i].fieldsIndexes)
                 /\ AtOrBelow(q, nodes[j].fieldsIndexes))
                => AtOrBelow(q, nodes[k].fieldsIndexes)
        /\ seen # <<>> => seen[1].ix = <<>>
        /\ \A i \in 2..Len(seen) :
              /\ seen[i].ix # <<>>
              /\ \E k \in 1..(i - 1) :
                    seen[k].ix = SubSeq(seen[i].ix, 1, Len(seen[i].ix) - 1)
        /\ \A n \in 1..Len(nodes) :
              /\ PathFollowsType(nodes[n])
              /\ nodes[n].fieldsIndexes = <<>> => Path(nodes[n]) = <<>>

\* The root record, a pointer to a record in it and the fields of that record are
\* returned, after an earlier sibling of the pointer.
C11_Witness ==
    /\ last.op = "Recursive"
    /\ \E i, j, k, m \in 1..Len(nodes) :
          /\ i < j /\ j < k /\ k < m
          /\ nodes[i].fieldsIndexes = <<>>
          /\ Len(nodes[j].fieldsIndexes) = 1
          /\ Len(nodes[k].fieldsIndexes) = 1
          /\ nodes[j].fieldsIndexes # nodes[k].fieldsIndexes
          /\ Below(nodes[k].fieldsIndexes, nodes[m].fieldsIndexes)
          /\ Len(nodes[m].fieldsIndexes) = 3

\* C12: Filter called with a nil node answers skip+no-descend and calls no filter,
\* whatever the chain, the empty chain included: the position Recursive built no
\* node for is decided without a filter being called, it is not returned and
\* nothing below it is visited; for a node every filter of the chain is called.
C12_NilNodeIsExcluded ==
    last.op = "Recursive" =>
        \A i \in 1..Len(seen) :
            IF seen[i].val.null
            THEN /\ seen[i].r = SkipNoDescend
                 /\ seen[i].calls = 0
                 /\ \A fs \in Perms(filters) \cup {<<>>} :
                       Filter(heap, seen[i].val, fs)
                         = [h |-> heap, r |-> SkipNoDescend, calls |-> 0]
                 /\ \A q \in SeenPositions \cup NodePositions : ~Below(seen[i].ix, q)
                 /\ seen[i].ix \notin NodePositions
            ELSE seen[i].calls = Len(filters)

\* A field of a kind that binds no node, under two filters that vote to include
\* and descend.
C12_Witness ==
    /\ last.op = "Recursive"
    /\ \E i \in 1..Len(seen) : seen[i].val.null /\ Len(seen[i].ix) = 1
    /\ Len(filters) = 2
    /\ \A k \in 1..2 : filters[k] = FilterFunc("all", <<>>, IncludeAndDescend)

(***************************************************************************)
(* SpecRoot: the arguments New and Recursive are handed: nil, values that  *)
(* are not pointers (copies of a variable of the caller's), nil pointers,  *)
(* and pointers to values of kinds that bind a node or do not.             *)
(***************************************************************************)
\* A root that is a copy of the caller's variable of type t, not a pointer to it.
ValueRoot(t) == [root |-> Root("value", 1, t), heap |-> <<ZeroOf(t)>>]

\* A root that is a nil pointer to t, next to a variable of that type.
NilPtrRoot(t) == [root |-> Root("nilptr", 0, PtrTo(t)), heap |-> <<ZeroOf(t)>>]

RootTypes == {TString, TStrings, TInput}

RootArgs ==
    {[root |-> Root("nil", 0, TChan), heap |-> <<>>]}
        \cup {ValueRoot(t) : t \in RootTypes}
        \cup {NilPtrRoot(t) : t \in RootTypes}
        \cup {ZeroRoot(t) : t \in RootTypes \cup {TChan, PtrTo(TString)}}

\* The chains of at most one filter.
ShortChains == {<<>>} \cup {<<f>> : f \in FilterSet}

InitRoot == InitWith(RootArgs, ShortChains)

NextRoot ==
    \/ DoRecursive
    \/ DoNew
    \/ \E n \in Handles : DoPath(n)
    \/ \E n \in Handles : DoType(n)

SpecRoot == InitRoot /\ [][NextRoot]_vars

\* The pointer-unwrapped type is of a kind that binds a node.
SupportedType(t) ==
    \/ t.kind \in IntKinds \cup FloatKinds \cup ComplexKinds
                  \cup {"bool", "string", "map", "struct"}
    \/ /\ t.kind = "slice"
       /\ elemIfPtrType(t.elem).kind
            \in IntKinds \cup FloatKinds \cup ComplexKinds
                 \cup {"bool", "string", "slice", "map", "struct"}

\* The root is nil, is not a pointer, or is a nil pointer.
UnusableRoot == root.form \in {"nil", "value", "nilptr"}

\* C13: for a root that is nil, not a pointer or a nil pointer, Recursive returns
\* no nodes and New returns nil, whatever the filters, and the caller's memory is
\* untouched; for a non-nil pointer to a value of a supported kind New returns a
\* node with the empty path, and so does Recursive first unless the filters skip it.
C13_RootValidation ==
    /\ (last.op = "Recursive" /\ UnusableRoot)
          => nodes = <<>> /\ seen = <<>> /\ heap = pre
    /\ (last.op = "New" /\ UnusableRoot) => nodes = <<NilValue>> /\ heap = pre
    /\ (last.op = "New" /\ ~UnusableRoot /\ SupportedType(root.typ.elem))
          => /\ Len(nodes) = 1
             /\ isInitialized(nodes[1])
             /\ nodes[1].fieldsIndexes = <<>>
             /\ Path(nodes[1]) = <<>>
    /\ (last.op = "Recursive" /\ ~UnusableRoot /\ SupportedType(root.typ.elem))
          => /\ seen # <<>> /\ seen[1].ix = <<>> /\ isInitialized(seen[1].val)
             /\ ~Skips(seen[1].r)
                  => /\ nodes # <<>>
                     /\ nodes[1] = seen[1].val
                     /\ Path(nodes[1]) = <<>>
    /\ (last.op = "Path" /\ LastNode.fieldsIndexes = <<>>) => last.out = <<>>

\* Recursive was handed a record that is not a pointer, with a filter that
\* includes every node.
C13_Witness ==
    /\ last.op = "Recursive"
    /\ root.form = "value" /\ root.typ = TInput
    /\ filters = <<FilterFunc("all", <<>>, IncludeAndDescend)>>
    /\ nodes = <<>>

RECURSIVE FieldsAlong(_, _)
\* The declared fields a sequence of indexes names from the type t on, a pointer
\* unwrapped at each step.
FieldsAlong(t, ix) ==
    IF ix = <<>> THEN <<>>
    ELSE <<StructFields(elemIfPtrType(t))[Head(ix)]>>
            \o FieldsAlong(StructFields(elemIfPtrType(t))[Head(ix)].Type, Tail(ix))

\* The declared type of a position, a pointer unwrapped.
TypeAt(ix) ==
    elemIfPtrType(IF ix = <<>> THEN root.typ
                  ELSE FieldsAlong(root.typ, ix)[Len(ix)].Type)

\* C14: every node Recursive returns is a node (not nil), its path names exported
\* fields only and its kind, a pointer unwrapped, is supported; no position below a
\* field that is not exported is visited; a position of an unsupported kind (a
\* channel, a pointer to a pointer, a list of such) gets no node, is not returned
\* and nothing below it is visited, whatever the filters vote.
C14_OnlySupportedExported ==
    last.op = "Recursive" =>
        /\ \A n \in 1..Len(nodes) :
              /\ isInitialized(nodes[n])
              /\ \A k \in 1..Len(Path(nodes[n])) : Path(nodes[n])[k].Exported
              /\ SupportedType(elemIfPtrType(typ(nodes[n])))
        /\ \A i \in 1..Len(seen) :
              /\ \A k \in 1..Len(seen[i].ix) : FieldsAlong(root.typ, seen[i].ix)[k].Exported
              /\ ~SupportedType(TypeAt(seen[i].ix))
                    => /\ seen[i].val.null
                       /\ \A q \in SeenPositions \cup NodePositions : ~Below(seen[i].ix, q)
                       /\ seen[i].ix \notin NodePositions

\* A pointer to a pointer to a record and a list of such were visited under
\* filters that include every node and descend; the record's own field was not.
C14_Witness ==
    /\ last.op = "Recursive" /\ Len(filters) = 2
    /\ \A k \in 1..2 : filters[k].fk = "all" /\ filters[k].vote = IncludeAndDescend
    /\ \E i, j \in 1..Len(seen) :
          /\ TypeAt(seen[i].ix) = PtrTo(TTestStruct)
          /\ TypeAt(seen[j].ix) = SliceOf(PtrTo(PtrTo(TTestStruct)))
          /\ Append(seen[i].ix, 1) \notin SeenPositions
    /\ nodes # <<>>

(***************************************************************************)
(* SpecKind: pointers to zero values of the generic test type over every   *)
(* modelled element type, no filters; the nodes are asked for their type   *)
(* label and whether they are boolean flags.                               *)
(***************************************************************************)
KindTypes ==
    {TBool, TInt, TInt8, TUint, TUint8, TFloat32, TFloat64, TComplex64, TComplex128,
     TString, TBytes, TStrings, TStringMap, TTestStruct, SliceOf(PtrTo(TUint8))}

KindRoots == {ZeroRoot(TGen(e)) : e \in KindTypes}

InitKind == InitWith(KindRoots, {<<>>})

NextKind ==
    \/ DoRecursive
    \/ DoNew
    \/ \E n \in Handles : DoType(n)
    \/ \E n \in Handles : DoIsBoolFlag(n)

SpecKind == InitKind /\ [][NextKind]_vars

\* C15: IsBoolFlag answers true exactly when the kind of the bound position,
\* after one pointer is unwrapped, is the scalar bool; it answers false for
\* every other kind, a list of booleans included.
C15_BoolFlagIffScalarBool ==
    (last.op = "IsBoolFlag" /\ OnNode) =>
        (last.out = <<TRUE>> <=> elemIfPtrType(typ(LastNode)).kind = "bool")

(***************************************************************************)
(* SpecScalar: the leaves of the generic test type over the scalar kinds   *)
(* and the map, with the built-in notations.  The texts add, to those of   *)
(* Spec, the ones that denote the zero value and the ones at and beyond    *)
(* the ends of the range of every integer kind; the caller may also hand a *)
(* node the text the node itself renders.                                  *)
(***************************************************************************)
ScalarTypes == {TBool, TInt, TInt8, TInt16, TInt32, TInt64, TUint, TUint8, TUint16, TUint32,
                TUint64, TFloat32, TFloat64, TComplex64, TComplex128, TString, TBytes,
                TStringMap}

\* The largest number of each integer kind, written out.
MaxOfKind(kind) ==
    CASE kind = "int8" -> <<1, 2, 7>>
      [] kind = "int16" -> <<3, 2, 7, 6, 7>>
      [] kind = "int32" -> <<2, 1, 4, 7, 4, 8, 3, 6, 4, 7>>
      [] kind \in {"int", "int64"} ->
            <<9, 2, 2, 3, 3, 7, 2, 0, 3, 6, 8, 5, 4, 7, 7, 5, 8, 0, 7>>
      [] kind = "uint8" -> <<2, 5, 5>>
      [] kind = "uint16" -> <<6, 5, 5, 3, 5>>
      [] kind = "uint32" -> <<4, 2, 9, 4, 9, 6, 7, 2, 9, 5>>
      [] kind \in {"uint", "uint64"} ->
            <<1, 8, 4, 4, 6, 7, 4, 4, 0, 7, 3, 7, 0, 9, 5, 5, 1, 6, 1, 5>>

\* The smallest number of each integer kind, written out without its sign.
MinOfKind(kind) ==
    CASE kind = "int8" -> <<1, 2, 8>>
      [] kind = "int16" -> <<3, 2, 7, 6, 8>>
      [] kind = "int32" -> <<2, 1, 4, 7, 4, 8, 3, 6, 4, 8>>
      [] kind \in {"int", "int64"} ->
            <<9, 2, 2, 3, 3, 7, 2, 0, 3, 6, 8, 5, 4, 7, 7, 5, 8, 0, 8>>
      [] OTHER -> <<>>

\* The number n, [neg, mag], is one of the kind.
InRangeOfKind(kind, n) ==
    IF n.neg THEN ~DigitsLess(MinOfKind(kind), n.mag) ELSE ~DigitsLess(MaxOfKind(kind), n.mag)

\* The texts at the ends of the range of a kind and one step beyond them.
EdgeTexts(kind) ==
    LET max == MaxOfKind(kind)
        min == MinOfKind(kind)
    IN  {FormatUint(max), FormatUint(MulAdd(max, 1, 1)),
         <<"-">> \o FormatUint(MulAdd(min, 1, 0)), <<"-">> \o FormatUint(MulAdd(min, 1, 1))}

ScalarRoots == {ZeroRoot(TGen(e)) : e \in ScalarTypes}

ZeroTextsOfType(t) ==
    CASE t.kind = "bool" -> {<<"f", "a", "l", "s", "e">>}
      [] t.kind = "int8" ->
            {<<"0">>, <<"1", "2", "7">>, <<"-", "1", "2", "9">>, <<"-", "0", "x", "8", "1">>}
      [] t.kind = "uint8" ->
            {<<"0">>, <<"2", "5", "5">>, <<"2", "5", "6">>, <<"2", "5", "6", "_">>, <<"+", "1">>}
      [] t.kind = "int16" -> {<<"0">>, <<"0", "x", "7", "F", "F", "F">>, <<"0", "x", "8", "0", "0", "0">>, <<"-", "3", "2", "_", "7", "6", "9">>} \cup EdgeTexts(t.kind)
      [] t.kind \in WideKinds \ {"int16"} ->
            {<<"0">>, <<"0", "o", "1", "7">>} \cup EdgeTexts(t.kind)
      [] t.kind = "float32" -> {<<"0">>, <<"-", "0">>, <<"1", "e", "-", "4", "6">>}
      [] t.kind = "float64" -> {<<"0", ".", "0">>, <<"-", "0">>, <<"1", "e", "-", "4", "0", "0">>}
      [] t.kind = "complex64" -> {<<"0">>, <<"-", "0", "-", "0", "i">>}
      [] t.kind = "complex128" -> {<<"(", "0", "+", "0", "i", ")">>, <<"0", "i">>}
      [] t.kind = "slice" /\ t.elem.kind = "uint8" -> {<<>>}
      [] t.kind = "map" -> {<<"{", "}">>}
      [] OTHER -> {}

\* The texts tried on a node in SpecScalar.
ScalarTexts(val) ==
    IF ~isInitialized(val) THEN Texts(val)
    ELSE LET t == elemIfPtrType(typ(val))
         IN  Texts(val) \cup
             (IF t.kind = "slice" /\ t.elem.kind # "uint8"
              THEN ZeroTextsOfType(elemIfPtrType(t.elem))
              ELSE ZeroTextsOfType(t))

\* val.Set(val.String()): when String panics the call ends there, with what
\* val.get() allocated, and Set is not called.
DoSetString(n) ==
    /\ Ready
    /\ \E s \in {String(heap, NodeAt(n))} :
       \E r \in {IF s.s = Fault THEN SRes(s.h, "panic") ELSE Set(s.h, NodeAt(n), s.s)} :
           /\ heap' = r.h
           /\ pre' = heap
           /\ last' = Op("SetString", n, IF s.s = Fault THEN <<>> ELSE s.s, r.err, <<>>)
    /\ ops' = ops + 1
    /\ UNCHANGED <<root, stack, filters, nodes, seen, zeroVal>>

InitScalar == InitWith(ScalarRoots, {<<>>})

NextScalar ==
    \/ DoRecursive
    \/ DoNew
    \/ \E n \in Handles : \E to \in ScalarTexts(NodeAt(n)) : DoSet(n, to)
    \/ \E n \in Handles : DoGet(n)
    \/ \E n \in Handles : DoString(n)
    \/ \E n \in Handles : DoSetString(n)

SpecScalar == InitScalar /\ [][NextScalar]_vars

\* A value of a kind other than a record that is the zero value of its kind:
\* false, 0, the empty text, a nil or empty byte buffer, list or map.
ZeroValued(d) ==
    CASE d.k = "bool" -> d.v = FALSE
      [] d.k \in IntKinds -> Uint64(d) = <<>>
      [] d.k \in FloatKinds -> FloatIsZero(d.v)
      [] d.k \in ComplexKinds -> ComplexIsZero(d.v)
      [] d.k = "string" -> d.v = <<>>
      [] d.k = "slice" -> Len(d.e) = 0
      [] d.k = "map" -> DOMAIN d.m = {}
      [] OTHER -> FALSE

\* What Get returns for a node, a pointer followed.
GotValue(h, val) ==
    LET followed(d) == IF d.k = "ref" THEN d.to ELSE d
        of(g) == followed(Deep(g.h, g.v))
    IN  of(Get(h, val))

\* C16: with the built-in notation, String() of a node of a kind other than a
\* record is the empty text whenever the bound value is the zero value of its
\* kind; this also holds right after a successful Set that stored that zero,
\* where Get then returns the zero and String() the empty text.
C16_ZeroRendersEmpty ==
    /\ (last.op = "String" /\ OnNode /\ LastNode.encodeFn = "nil" /\ IsLeaf(LastNode)
            /\ ZeroValued(Cur(pre, LastNode)))
          => last.out = <<>>
    /\ (SetOk /\ BuiltIn(LastNode) /\ LastNode.encodeFn = "nil" /\ IsLeaf(LastNode)
            /\ ZeroValued(Cur(heap, LastNode)))
          => /\ String(heap, LastNode).s = <<>>
             /\ ZeroValued(GotValue(heap, LastNode))

\* Set("0") on the integer behind a nil pointer: the pointer now leads to an
\* integer that is 0, and the node renders the empty text.
C16_Witness ==
    /\ SetOk /\ LastNode.typeName = "int8" /\ last.to = <<"0">>
    /\ ThroughNil(pre, LastNode) /\ ~ThroughNil(heap, LastNode)
    /\ GotValue(heap, LastNode) = VInt("int8", 0)
    /\ String(heap, LastNode).s = <<>>

\* The nodes of the scalar kinds: bool, the integers, text, byte buffer.
IsScalarNode(val) == val.typeName \in IntKinds \cup {"bool", "string", "base64"}

\* A numeral of Go's syntax for integer literals, with an optional sign: a mark
\* of the base (0b, 0o, 0x, or a leading 0 for base 8), then digits of the
\* base; an underscore may stand between two digits, or between the mark and
\* the first digit.  [ok, neg, base, digs], digs being the digits alone.
Numeral(to) ==
    LET signed == to # <<>> /\ to[1] \in {"+", "-"}
        body == IF signed THEN Tail(to) ELSE to
        marked == Len(body) >= 3 /\ body[1] = "0" /\ lower(body[2]) \in {"b", "o", "x"}
        legacy == ~marked /\ Len(body) >= 1 /\ body[1] = "0"
        base == IF marked
                THEN (CASE lower(body[2]) = "b" -> 2 [] lower(body[2]) = "o" -> 8 [] OTHER -> 16)
                ELSE IF legacy THEN 8 ELSE 10
        after == IF marked THEN Drop(body, 2) ELSE IF legacy THEN Drop(body, 1) ELSE body
        isDig(c) == (IsDigit(c) \/ IsLetter(c)) /\ DigitOf(c) < base
        sepOK(i) == /\ i < Len(after) /\ isDig(after[i + 1])
                    /\ IF i = 1 THEN marked \/ legacy ELSE isDig(after[i - 1])
    IN  [ok |-> /\ \A i \in 1..Len(after) :
                      IF after[i] = "_" THEN sepOK(i) ELSE isDig(after[i])
                /\ (legacy \/ \E i \in 1..Len(after) : after[i] # "_"),
         neg |-> signed /\ to[1] = "-",
         base |-> base,
         digs |-> SelectSeq(after, LAMBDA c : c # "_")]

RECURSIVE PlaceValue(_, _)
\* The number the digits digs spell in the base.
PlaceValue(digs, base) ==
    IF digs = <<>> THEN <<>>
    ELSE MulAdd(PlaceValue(SubSeq(digs, 1, Len(digs) - 1), base), base, DigitOf(digs[Len(digs)]))

\* The number a numeral denotes, whatever its size: [neg, mag].
NumberOf(to) == SInt(Numeral(to).neg, PlaceValue(Numeral(to).digs, Numeral(to).base))

\* C17: for a node of a scalar kind (bool, an integer of 8, 16, 32 or 64 bits,
\* signed or not, text, byte buffer) that holds a value v other than the zero
\* value, Set(String()) succeeds and the bound value is v afterwards; and after
\* a successful Set(t) the bound value is what t parses to, whatever the value
\* was before: for an integer node t is a numeral and the value is the number
\* it denotes.
C17_ScalarRoundTrip ==
    /\ (last.op = "SetString" /\ OnNode /\ IsScalarNode(LastNode)
            /\ ~ZeroValued(Cur(pre, LastNode)))
          => (last.err = "" /\ Cur(heap, LastNode) = Cur(pre, LastNode))
    /\ (SetOk /\ IsScalarNode(LastNode))
          => Cur(heap, LastNode) = Decoded(elemIfPtrType(typ(LastNode)), last.to)
    /\ (SetOk /\ BuiltIn(LastNode) /\ LastNode.typeName \in IntKinds)
          => /\ Numeral(last.to).ok
             /\ Cur(heap, LastNode) = IntValue(LastNode.typeName, NumberOf(last.to))

\* The smallest int64, behind a pointer, handed its own rendering.
C17_Witness ==
    /\ last.op = "SetString" /\ OnNode /\ LastNode.typeName = "int64"
    /\ typ(LastNode).kind = "ptr"
    /\ Cur(pre, LastNode) = VInt("int64", SInt(TRUE, <<9, 2, 2, 3, 3, 7, 2, 0, 3, 6, 8, 5, 4, 7, 7, 5, 8, 0, 8>>))
    /\ last.to = <<"-", "9", "2", "2", "3", "3", "7", "2", "0", "3", "6", "8", "5", "4", "7", "7", "5", "8", "0", "8">> /\ last.err = ""
    /\ Cur(heap, LastNode) = VInt("int64", SInt(TRUE, <<9, 2, 2, 3, 3, 7, 2, 0, 3, 6, 8, 5, 4, 7, 7, 5, 8, 0, 8>>))

\* C18: Set on an integer node of 8, 16, 32 or 64 bits with a numeral whose
\* number is outside the range of the node's kind, or with a numeral that has a
\* minus sign on an unsigned node, returns an error and stores nothing: the
\* caller's memory is what it was, so the value is neither truncated, nor
\* wrapped, nor clamped.
C18_OutOfRangeRejected ==
    (last.op = "Set" /\ OnNode /\ BuiltIn(LastNode)
        /\ LastNode.typeName \in IntKinds
        /\ Numeral(last.to).ok
        /\ \/ ~InRangeOfKind(LastNode.typeName, NumberOf(last.to))
           \/ LastNode.typeName \notin SignedKinds /\ Numeral(last.to).neg)
      => (last.err # "" /\ heap = pre)

\* 1<<63 handed to an int64 that holds -(1<<63), which it keeps.
C18_Witness ==
    /\ SetFailed /\ LastNode.typeName = "int64" /\ last.to = <<"9", "2", "2", "3", "3", "7", "2", "0", "3", "6", "8", "5", "4", "7", "7", "5", "8", "0", "8">>
    /\ Cur(pre, LastNode) = VInt("int64", SInt(TRUE, <<9, 2, 2, 3, 3, 7, 2, 0, 3, 6, 8, 5, 4, 7, 7, 5, 8, 0, 8>>))
    /\ Cur(heap, LastNode) = VInt("int64", SInt(TRUE, <<9, 2, 2, 3, 3, 7, 2, 0, 3, 6, 8, 5, 4, 7, 7, 5, 8, 0, 8>>))

\* The label the kind dispatch is to give a list type u (no pointer around it).
ListLabel(u) ==
    LET e == elemIfPtrType(u.elem)
    IN  IF u.elem.kind = "uint8" THEN "base64"
        ELSE IF e.kind = "uint8" THEN "uint8 (JSON list)"
        ELSE IF e.kind = "slice" /\ e.elem.kind = "uint8" THEN "base64 (JSON list)"
        ELSE "JSON list"

\* The lists the dispatch tells apart by their element: lists of uint8, of
\* pointers to uint8, and of lists (or pointers to lists).
IsByteOrListOfLists(u) ==
    u.kind = "slice" /\ elemIfPtrType(u.elem).kind \in {"uint8", "slice"}

\* C19: a list of uint8, or a pointer to one, is bound as "base64"; a list of
\* pointers to uint8 as "uint8 (JSON list)"; a list whose element, one pointer
\* unwrapped, is a list of uint8 as "base64 (JSON list)"; any other list of
\* lists as "JSON list"; and a field and a pointer to the same type get the
\* same label.
C19_KindDispatch ==
    /\ (last.op = "Type" /\ OnNode /\ IsByteOrListOfLists(elemIfPtrType(typ(LastNode))))
          => last.out = <<ListLabel(elemIfPtrType(typ(LastNode)))>>
    /\ \A a, b \in Handles :
          (isInitialized(nodes[a]) /\ isInitialized(nodes[b])
              /\ typ(nodes[a]) = PtrTo(typ(nodes[b])))
            => Type(nodes[a]) = Type(nodes[b])

\* The label of a pointer to a list of pointers to byte buffers was asked for.
C19_Witness ==
    /\ last.op = "Type" /\ OnNode
    /\ typ(LastNode) = PtrTo(SliceOf(PtrTo(TBytes)))
    /\ last.out = <<"base64 (JSON list)">>
    /\ \E b \in Handles : typ(nodes[b]) = SliceOf(PtrTo(TBytes))

\* The JSON encoding of the record a node is bound to: [err, s].
RecordJSON(h, val) ==
    LET of(x) == Marshal(x.h, RVal(x.h, x.v), x.v.typ) IN of(get(h, val))

\* The encodings a record node does not show.
DegenerateJSON == {<<"{", "}">>, <<"[", "]">>, <<"\"", "\"">>, <<"0">>, <<"f", "a", "l", "s", "e">>}

\* C20: with the built-in notation, String() of a record node is the empty text
\* exactly when the JSON encoding of the record is one of {}, [], "", 0, false
\* or cannot be produced; otherwise it is that encoding in full, so a record
\* that holds an empty record which is not omitted renders non-empty.
C20_RecordRendering ==
    (last.op = "String" /\ OnNode /\ LastNode.encodeFn = "nil" /\ ~IsLeaf(LastNode))
      => /\ last.out = <<>> <=> (RecordJSON(heap, LastNode).err # ""
                                   \/ RecordJSON(heap, LastNode).s \in DegenerateJSON)
         /\ last.out # <<>> => last.out = RecordJSON(heap, LastNode).s

\* The zero value of the generic record over the test record: its Value field
\* is an empty record, shown as {}.
C20_Witness ==
    /\ last.op = "String" /\ OnNode /\ LastNode.encodeFn = "nil"
    /\ LastNode.fieldsIndexes = <<>> /\ elemIfPtrType(typ(LastNode)) = TGen(TTestStruct)
    /\ last.out = <<"{", "\"", "V", "a", "l", "u", "e", "\"", ":", "{", "}", "}">>
    /\ \E n \in Handles :
          /\ elemIfPtrType(typ(nodes[n])) = TTestStruct
          /\ String(heap, nodes[n]).s = <<>>

(***************************************************************************)
(* Flag names (jsonfalg.go).  A Go string is a sequence of bytes that a     *)
(* range loop reads rune by rune; a name is modelled as a sequence of       *)
(* runes, an ASCII rune being the one-character string and every other      *)
(* rune the string of its code point: "U+00E4" is a-umlaut (lower case,     *)
(* bytes C3 A4), "U+00C4" is A-umlaut (upper case, bytes C3 84), "U+4E2D"   *)
(* is the CJK letter zhong (no case, bytes E4 B8 AD).                       *)
(***************************************************************************)
MaxLen == 5
MaxPath == 3

\* unicode.IsUpper, unicode.IsLower and unicode.ToLower on the modelled runes.
unicodeIsUpper(c) == InSeq(c, UpperChars) \/ c = "U+00C4"
unicodeIsLower(c) == InSeq(c, LowerChars) \/ c = "U+00E4"
unicodeToLower(c) == IF c = "U+00C4" THEN "U+00E4" ELSE lower(c)

\* unicode.IsLower(rune(b)) for a byte b: the byte is read as the code point of
\* the same number, whose lower-case letters are a..z, the micro sign, and
\* U+00DF..U+00FF without the division sign.
byteIsLower(b) == b \in 97..122 \/ b = 181 \/ (b \in 223..255 /\ b # 247)

\* jsonFieldName: the name encoding/json gives a field; empty for a skipped one.
jsonFieldName(sf) ==
    LET named(tag) == IF tag = <<>> THEN sf.Name ELSE IF tag = <<"-">> THEN <<>> ELSE tag
    IN  IF ~sf.HasJson THEN sf.Name ELSE named(CutBefore(sf.Json))

RECURSIVE jsonNameLoop(_, _, _)
\* The loop of JSONName over the rest of the path: b is the builder, dot the flag.
jsonNameLoop(path, b, dot) ==
    LET step(n) ==
            IF n = <<>> THEN jsonNameLoop(Tail(path), b, FALSE)
            ELSE jsonNameLoop(Tail(path), (IF dot THEN b \o <<".">> ELSE b) \o n, TRUE)
    IN  IF path = <<>> THEN b ELSE step(jsonFieldName(Head(path)))

JSONName(path) ==
    LET named(n) == IF n = <<>> THEN <<"i", "n", "p", "u", "t">> ELSE n
    IN  named(jsonNameLoop(path, <<>>, FALSE))

RECURSIVE camelLoop(_, _, _)
camelLoop(s, result, needLower) ==
    IF s = <<>> THEN result
    ELSE IF Head(s) = "." THEN camelLoop(Tail(s), Append(result, "."), TRUE)
    ELSE IF needLower THEN camelLoop(Tail(s), Append(result, unicodeToLower(Head(s))), FALSE)
    ELSE camelLoop(Tail(s), Append(result, Head(s)), needLower)

\* A variant of JsonCamelCase: only the first rune of the name is lowered.
JsonCamelCaseFirstOnly(s) ==
    IF s = <<>> THEN <<>> ELSE <<unicodeToLower(Head(s))>> \o Tail(s)

JsonCamelCase(s) == IF s = <<>> THEN <<>> ELSE camelLoop(s, <<>>, TRUE)

RECURSIVE separate(_, _, _, _, _, _)
\* The loop of SnakeCase and DashCase: k is the rune the loop is at, i its byte
\* offset (from 0, as in the code), bs the bytes of s; s[i-1] is bs[i] and
\* s[i+1] is bs[i+2].
separate(s, bs, k, i, result, sep) ==
    IF k > Len(s) THEN result
    ELSE IF unicodeIsUpper(s[k])
         THEN separate(s, bs, k + 1, i + Len(utf8Bytes(s[k])),
                       (IF i > 0 /\ byteIsLower(bs[i]) /\ i + 1 < Len(bs) /\ byteIsLower(bs[i + 2])
                        THEN Append(result, sep) ELSE result)
                           \o <<unicodeToLower(s[k])>>,
                       sep)
    ELSE separate(s, bs, k + 1, i + Len(utf8Bytes(s[k])), Append(result, s[k]), sep)

SnakeCase(s) == IF s = <<>> THEN <<>> ELSE separate(s, stringBytes(s), 1, 0, <<>>, "_")

DashCase(s) == IF s = <<>> THEN <<>> ELSE separate(s, stringBytes(s), 1, 0, <<>>, "-")

(***************************************************************************)
(* SpecName: a naming function applied, once, to a path of tagged fields   *)
(* or to a name over a small alphabet.                                     *)
(***************************************************************************)
NameFields ==
    { StructField(<<"F", "o", "o">>, TString, TRUE, FALSE, <<>>),
      StructField(<<"B", "a", "r">>, TString, TRUE, TRUE, <<"b", "a", "r", ",", "o", "m", "i", "t", "e", "m", "p", "t", "y">>),
      StructField(<<"B", "a", "z">>, TString, TRUE, TRUE, <<"-">>),
      StructField(<<"Q", "u", "x">>, TString, TRUE, TRUE, <<",", "o", "m", "i", "t", "e", "m", "p", "t", "y">>) }

NamePaths == UNION {[1..k -> NameFields] : k \in 0..MaxPath}

NameChars == {"a", "B", ".", "U+00E4", "U+00C4", "U+4E2D"}

Names == UNION {[1..k -> NameChars] : k \in 0..MaxLen}

\* Nothing was applied yet: the inputs are drawn only then.
Fresh == last.op = "none"

DoJSONName(path) ==
    /\ Fresh
    /\ last' = Op("JSONName", 0, path, "", JSONName(path))
    /\ UNCHANGED <<root, stack, heap, filters, nodes, seen, zeroVal, pre, ops>>

DoJsonCamelCase(s) ==
    /\ Fresh
    /\ last' = Op("JsonCamelCase", 0, s, "", JsonCamelCase(s))
    /\ UNCHANGED <<root, stack, heap, filters, nodes, seen, zeroVal, pre, ops>>

DoSnakeCase(s) ==
    /\ Fresh
    /\ last' = Op("SnakeCase", 0, s, "", SnakeCase(s))
    /\ UNCHANGED <<root, stack, heap, filters, nodes, seen, zeroVal, pre, ops>>

DoDashCase(s) ==
    /\ Fresh
    /\ last' = Op("DashCase", 0, s, "", DashCase(s))
    /\ UNCHANGED <<root, stack, heap, filters, nodes, seen, zeroVal, pre, ops>>

InitName == InitWith({ZeroRoot(TInput)}, {<<>>})

NextName ==
    \/ Fresh /\ \E path \in NamePaths : DoJSONName(path)
    \/ Fresh /\ \E s \in Names : DoJsonCamelCase(s)
    \/ Fresh /\ \E s \in Names : DoSnakeCase(s)
    \/ Fresh /\ \E s \in Names : DoDashCase(s)

SpecName == InitName /\ [][NextName]_vars

RECURSIVE JoinDots(_)
\* The texts of a list with one dot between every two of them.
JoinDots(ns) ==
    IF ns = <<>> THEN <<>>
    ELSE IF Len(ns) = 1 THEN ns[1]
    ELSE ns[1] \o <<".">> \o JoinDots(Tail(ns))

RECURSIVE Contributing(_)
\* The JSON names of the fields of a path that are not skipped, in path order.
Contributing(path) ==
    IF path = <<>> THEN <<>>
    ELSE IF JsonSkipped(Head(path)) THEN Contributing(Tail(path))
    ELSE <<JsonKey(Head(path))>> \o Contributing(Tail(path))

\* C21: JSONName(path) is the JSON names of the fields of the path that are not
\* skipped, in path order, with exactly one dot between every two of them,
\* wherever a skipped field sits in the path; it is "input" when no field
\* contributes.
C21_JSONNameJoinsWithDots ==
    last.op = "JSONName"
      => last.out = (IF Contributing(last.to) = <<>> THEN <<"i", "n", "p", "u", "t">>
                     ELSE JoinDots(Contributing(last.to)))

RECURSIVE SeparatedByRule(_, _, _)
\* The name from its rune k on, every upper-case letter lowered and the
\* separator put before it exactly when the characters before and after it are
\* lower-case letters.
SeparatedByRule(s, k, sep) ==
    IF k > Len(s) THEN <<>>
    ELSE (IF unicodeIsUpper(s[k])
          THEN (IF k > 1 /\ unicodeIsLower(s[k - 1]) /\ k < Len(s) /\ unicodeIsLower(s[k + 1])
                THEN <<sep>> ELSE <<>>) \o <<unicodeToLower(s[k])>>
          ELSE <<s[k]>>)
         \o SeparatedByRule(s, k + 1, sep)

\* C22: SnakeCase, and DashCase with "-" for "_", lowers every upper-case
\* letter and puts the separator before an upper-case letter exactly when the
\* character before it is a lower-case letter and the character after it is a
\* lower-case letter; no other character is added and none is removed.
C22_SeparatorRule ==
    /\ last.op = "SnakeCase" => last.out = SeparatedByRule(last.to, 1, "_")
    /\ last.op = "DashCase" => last.out = SeparatedByRule(last.to, 1, "-")

\* The converter an operation of SpecName applied.
Convert(op, s) ==
    CASE op = "JsonCamelCase" -> JsonCamelCase(s)
      [] op = "SnakeCase" -> SnakeCase(s)
      [] op = "DashCase" -> DashCase(s)

DotCount(s) == Cardinality({k \in 1..Len(s) : s[k] = "."})

\* C23: each of JsonCamelCase, SnakeCase and DashCase converts a name segment
\* by segment: for names a and b without a dot the conversion of a.b is the
\* conversion of a, a dot, and the conversion of b; the result has as many dots
\* as the name; and converting the result again changes nothing.
C23_SegmentBySegment ==
    last.op \in {"JsonCamelCase", "SnakeCase", "DashCase"}
      => /\ DotCount(last.out) = DotCount(last.to)
         /\ Convert(last.op, last.out) = last.out
         /\ \A k \in 1..Len(last.to) :
               (last.to[k] = "." /\ DotCount(last.to) = 1)
                 => last.out = Convert(last.op, SubSeq(last.to, 1, k - 1)) \o <<".">>
                                 \o Convert(last.op, SubSeq(last.to, k + 1, Len(last.to)))

\* A name of two segments, the first of which gets a separator.
C23_Witness ==
    /\ last.op = "SnakeCase"
    /\ last.to = <<"a", "B", "a", ".", "B">>
    /\ last.out = <<"a", "_", "b", "a", ".", "b">>

\* The value the writing decoders leave at the position of a node.
SampleAt(val) == Deep(<<>>, SampleOf(elemIfPtrType(typ(val))))

\* C24: with a decoder of the caller's on a node, Set(t) does not run the
\* built-in parser: the decoder gets the text and a pointer to the bound value,
\* and Set returns what the decoder returns: the decoder's error reaches the
\* caller as it is, and after a decoder that succeeded the bound value is what
\* the decoder wrote.
C24_DecoderReplacesParser ==
    (last.op = "Set" /\ OnNode /\ ~BuiltIn(LastNode))
      => /\ LastNode.decodeFn = "fail"
               => (last.err = "decoding error" /\ Cur(heap, LastNode) = Cur(pre, LastNode))
         /\ LastNode.decodeFn = "writeFail" => last.err = "decoding error"
         /\ LastNode.decodeFn = "writeOk"
               => (last.err = "" /\ Cur(heap, LastNode) = SampleAt(LastNode))
         /\ (LastNode.decodeFn = "json" /\ ~JSONParse(last.to).ok)
               => (last.err # "" /\ Cur(heap, LastNode) = Cur(pre, LastNode))

\* A text node whose decoder wrote its own value, not the text it was handed.
C24_Witness ==
    /\ SetOk /\ LastNode.decodeFn = "writeOk" /\ LastNode.typeName = "string"
    /\ last.to = <<"a", "<", "b">>
    /\ Cur(heap, LastNode) = VStr(<<"x">>)

\* C25: with an encoder of the caller's on a node, String() is exactly what
\* the encoder returns for the bound value, also when that value is the zero
\* value, and the empty text when the encoder returns an error; Set on such a
\* node still goes to the node's decoder or to the built-in parser.
C25_EncoderReplacesRendering ==
    /\ (last.op = "String" /\ OnNode /\ LastNode.encodeFn # "nil")
          => /\ LastNode.encodeFn = "fail" => last.out = <<>>
             /\ LastNode.encodeFn = "const" => last.out = <<"c", "u", "s", "t", "o", "m">>
             /\ LastNode.encodeFn = "json"
                   => last.out = (IF RecordJSON(heap, LastNode).err # "" THEN <<>>
                                  ELSE RecordJSON(heap, LastNode).s)
    /\ (last.op = "Set" /\ OnNode /\ LastNode.encodeFn # "nil" /\ BuiltIn(LastNode))
          => /\ heap = setFn(pre, LastNode, last.to).h
             /\ last.err = setFn(pre, LastNode, last.to).err
             /\ LastNode.typeName = "string" => Cur(heap, LastNode) = VStr(last.to)

\* An empty text rendered by json.Marshal: two quotation marks, not nothing.
C25_Witness ==
    /\ last.op = "String" /\ OnNode /\ LastNode.encodeFn = "json"
    /\ LastNode.typeName = "string"
    /\ Cur(pre, LastNode) = VStr(<<>>)
    /\ last.out = <<"\"", "\"">>

(***************************************************************************)
(* SpecNamed: fields whose type is a type the caller defines from int8,    *)
(* string or []byte.                                                       *)
(***************************************************************************)
NamedTypes == {TNamedInt8, TNamedString, TNamedBytes}

InitNamed == InitWith({ZeroRoot(TGen(e)) : e \in NamedTypes}, {<<>>})

NextNamed ==
    \/ DoRecursive
    \/ DoNew
    \/ \E n \in Handles : \E to \in Texts(NodeAt(n)) : DoSet(n, to)
    \/ \E n \in Handles : DoGet(n)
    \/ \E n \in Handles : DoString(n)

SpecNamed == InitNamed /\ [][NextNamed]_vars

\* C26: Get, String and Set of a node never panic, whatever the node, the text
\* and the declared type of the field, the types the caller defines from a
\* primitive kind or from []byte included.
C26_NoRuntimeFault ==
    (last.op \in {"Get", "String", "Set"} /\ OnNode)
        => (last.err # "panic" /\ last.out # Fault)

\* Get or String was called on a node of the last Recursive or New.
Read == last.op \in {"Get", "String"} /\ OnNode

\* The positions on the path of a node, its own included, that hold a pointer
\* which was nil, or could not be reached, in the heap h.
NilAlong(h, val) ==
    { k \in 0..Len(val.fieldsIndexes) :
        typ(Ancestor(val, k)).kind = "ptr" /\ ThroughNil(h, Ancestor(val, k)) }

\* C27: Get and String allocate.  After the call no pointer on the path of the
\* node is nil, its own position included; each pointer that was nil points to
\* a cell the call allocated, which holds the zero value of its type but for
\* the field the path goes on through; what Get returns for a position of
\* pointer kind is a pointer that is not nil; and when no pointer on the path
\* was nil, as after a first Get or String, the call changes nothing.
C27_ReadsAllocate ==
    Read =>
        /\ ~ThroughNil(heap, LastNode)
        /\ \A k \in NilAlong(pre, LastNode) :
             LET anc == Ancestor(LastNode, k)
                 t == typ(anc).elem
             IN  /\ Peek(heap, anc).v.a > Len(pre)
                 /\ IF k = Len(LastNode.fieldsIndexes)
                    THEN RecordAt(heap, anc) = ZeroOf(t)
                    ELSE \A j \in 1..Len(StructFields(t)) :
                            j # LastNode.fieldsIndexes[k + 1]
                              => RecordAt(heap, anc).f[j] = ZeroOf(StructFields(t)[j].Type)
        /\ (last.op = "Get" /\ typ(LastNode).kind = "ptr")
             => (last.out[1] = FALSE /\ last.out[2].k = "ptr" /\ last.out[2].a # 0)
        /\ NilAlong(pre, LastNode) = {} => heap = pre

\* A first Get on a pointer field behind a nil pointer to a record: two cells are
\* allocated, and the pointer returned is not nil.
C27_Witness ==
    /\ Read /\ last.op = "Get" /\ ops = 1
    /\ typ(LastNode).kind = "ptr"
    /\ Cardinality(NilAlong(pre, LastNode)) = 2
    /\ Len(heap) = Len(pre) + 2
    /\ last.out[2].a # 0

\* A second String on a node whose first String allocated: nothing changes.
C27_SecondRead ==
    /\ Read /\ last.op = "String" /\ ops = 2
    /\ Len(heap) > 1 /\ heap = pre
    /\ typ(LastNode).kind = "ptr"

(***************************************************************************)
(* SpecWalk: Recursive one step at a time.  A frame of the stack is a call *)
(* of recursive: its position, and the field its loop stands at (0 before  *)
(* the filters were asked).  A record type that contains itself through a  *)
(* pointer is among the roots.                                             *)
(***************************************************************************)
Frame(ix, fs, i) == [ix |-> ix, fields |-> fs, i |-> i]

\* return values: the call on top ends, and the loop of its caller moves on.
Return(st) ==
    IF Len(st) = 1 THEN <<>>
    ELSE [SubSeq(st, 1, Len(st) - 1) EXCEPT ![Len(st) - 1].i = @ + 1]

\* The walk leaves last.op = "Recursive" when the outermost call has returned.
WalkOp(st) == IF st = <<>> THEN "Recursive" ELSE "recursive"

\* A variant of descends: the fields are gone through unless the node is skipped.
descendsUnlessSkipped(fr, t) == BitAnd(fr.r, skipMask) = 0 /\ t.kind = "struct"

\* Whether recursive goes on to the fields, after the decision fr of the
\* filters for a position of type t (a pointer unwrapped).
descends(fr, t) == BitAnd(fr.r, noDescendMask) = 0 /\ t.kind = "struct"

\* func Recursive: the argument is refused, or recursive is called on it.
DoEnter ==
    /\ last.op = "none"
    /\ stack' = IF Refused(root) THEN <<>> ELSE <<Frame(<<>>, <<>>, 0)>>
    /\ last' = Op(IF Refused(root) THEN "Recursive" ELSE "recursive", 0, <<>>, "", <<>>)
    /\ nodes' = <<>>
    /\ seen' = <<>>
    /\ pre' = heap
    /\ UNCHANGED <<root, heap, filters, zeroVal, ops>>

\* The head of recursive: the node is built, the filters decide, and the call
\* returns unless it is to go through the fields of a record.
DoVisit ==
    /\ last.op = "recursive"
    /\ stack[Len(stack)].i = 0
    /\ \E top \in {stack[Len(stack)]} :
       \E val \in {newValue(BaseOf(root), top.ix, top.fields)} :
       \E fr \in {Filter(heap, val, filters)} :
       \E st \in {IF descends(fr, elemIfPtrType(PosType(BaseOf(root), top.fields)))
                  THEN [stack EXCEPT ![Len(stack)].i = 1]
                  ELSE Return(stack)} :
           /\ nodes' = IF BitAnd(fr.r, skipMask) = 0 THEN Append(nodes, val) ELSE nodes
           /\ heap' = fr.h
           /\ seen' = Append(seen, [ix |-> top.ix, val |-> val, r |-> fr.r,
                                    calls |-> fr.calls])
           /\ stack' = st
           /\ last' = Op(WalkOp(st), 0, <<>>, "", <<>>)
    /\ UNCHANGED <<root, filters, zeroVal, pre, ops>>

\* One turn of the loop over the fields: a field that is not exported is passed
\* over, recursive is called for an exported one, and after the last field the
\* call returns.  A call that does not fit on the stack ends the program.
DoField ==
    /\ last.op = "recursive"
    /\ stack[Len(stack)].i > 0
    /\ \E top \in {stack[Len(stack)]} :
       \E t \in {elemIfPtrType(PosType(BaseOf(root), top.fields))} :
           IF top.i > Len(StructFields(t))
           THEN \E st \in {Return(stack)} :
                    stack' = st /\ last' = Op(WalkOp(st), 0, <<>>, "", <<>>)
           ELSE IF ~StructFields(t)[top.i].Exported
           THEN stack' = [stack EXCEPT ![Len(stack)].i = @ + 1] /\ UNCHANGED last
           ELSE IF Len(stack) < MaxDepth
           THEN /\ stack' = Append(stack, Frame(Append(top.ix, top.i),
                                                Append(top.fields, StructFields(t)[top.i]), 0))
                /\ UNCHANGED last
           ELSE stack' = stack /\ last' = Op("overflow", 0, <<>>, "", <<>>)
    /\ UNCHANGED <<root, heap, filters, nodes, seen, zeroVal, pre, ops>>

WalkFilters ==
    {FilterFunc("all", <<>>, v) : v \in Votes}
        \cup {FilterFunc("root", <<>>, v) : v \in Votes \ {IncludeAndDescend}}
        \cup {FilterFunc("prefix", <<"N", "e", "x", "t">>, v) : v \in Votes \ {IncludeAndDescend}}

WalkRoots ==
    {ZeroRoot(TLinked), ZeroRoot(TInput), ZeroRoot(TNested),
     ZeroRoot(THidden), ZeroRoot(TGen(TChan))}
        \cup RefusedRoots

InitWalk == InitWith(WalkRoots, UNION {[1..k -> WalkFilters] : k \in 0..MaxFilters})

NextWalk == DoEnter \/ DoVisit \/ DoField

\* The program goes on as long as it can: each call of recursive takes its next step.
SpecWalk == InitWalk /\ [][NextWalk]_vars /\ WF_vars(NextWalk)

\* When the walk has returned, it has built the nodes, made the changes and asked
\* the filters as recursive does in one go.
WalkIsRecursive ==
    last.op = "Recursive"
        => Recursive(pre, root, filters) = [values |-> nodes, h |-> heap, seen |-> seen]

RECURSIVE Endless(_, _, _)
\* The tree of the exported field paths below a position, cut where the
\* filters vote no-descend or no node is produced, is infinite: on some path
\* down the tree a record type comes back under the same field name.
Endless(ix, fs, above) ==
    LET b == BaseOf(root)
        val == newValue(b, ix, fs)
        t == elemIfPtrType(PosType(b, fs))
        key == <<t, IF fs = <<>> THEN <<>> ELSE fs[Len(fs)].Name>>
    IN  IF val.null \/ t.kind # "struct" THEN FALSE
        ELSE IF Filter(heap, val, filters).r % 2 = 1 THEN FALSE
        ELSE IF key \in above THEN TRUE
        ELSE \E i \in 1..Len(StructFields(t)) :
                /\ StructFields(t)[i].Exported
                /\ Endless(Append(ix, i), Append(fs, StructFields(t)[i]), above \cup {key})

EndlessTree == ~Refused(root) /\ Endless(<<>>, <<>>, {})

\* C28: Recursive returns exactly when the tree of the exported field paths of
\* the declared types, cut where the filters vote no-descend or no node is
\* produced, is finite.  On a finite tree it returns; on a record type that
\* contains itself through a pointer, nil or not, it calls itself until the
\* stack is exhausted, unless the filters vote no-descend on the cycle.
C28_ReturnsIffFinite ==
    /\ ~EndlessTree => <>(last.op = "Recursive")
    /\ EndlessTree => [](last.op # "Recursive")

\* The walk of the self-referential type, its pointer nil, has used up the stack.
C28_Witness ==
    /\ last.op = "overflow"
    /\ root.typ = PtrTo(TLinked)
    /\ heap[1].f[2] = VPtr(0)

\* The walk of the self-referential type has returned: a filter cut the cycle.
C28_CutCycle ==
    /\ last.op = "Recursive"
    /\ root.typ = PtrTo(TLinked)
    /\ Len(nodes) >= 2

RECURSIVE DeepSub(_, _, _)
\* The value the path index leads to in the value d of type t, the pointers on
\* the way and at its end followed, a nil pointer standing for a zero value.
DeepSub(d, t, index) ==
    IF t.kind = "ptr"
    THEN DeepSub(IF d.k = "nil" THEN Deep(<<>>, ZeroOf(t.elem)) ELSE d.to, t.elem, index)
    ELSE IF index = <<>> THEN d
    ELSE DeepSub(d.f[Head(index)], StructFields(t)[Head(index)].Type, Tail(index))

\* The nodes of the fields of the record a node is bound to, at any depth.
Descendants(val) ==
    {m \in 1..Len(nodes) : Below(val.fieldsIndexes, nodes[m].fieldsIndexes)}

\* The path from a node down to one of its descendants.
PathFrom(val, d) ==
    SubSeq(d.fieldsIndexes, Len(val.fieldsIndexes) + 1, Len(d.fieldsIndexes))

\* What a successful Set(to) through the scalar node d leaves in the record v of
\* the node val above it.
WrittenThrough(v, val, d, to) ==
    PatchPath(v, elemIfPtrType(typ(val)), PathFrom(val, d),
              IF typ(d).kind = "ptr"
              THEN [k |-> "ref", to |-> Decoded(typ(d).elem, to)]
              ELSE Decoded(typ(d), to))

\* C29: a node holds a path, not a location.  After a successful Set on a record
\* node replaced the record, Get through every node below it returns the field
\* of the new record, String of a string field renders it, and a successful Set
\* through a scalar node below it leaves the new record with that one field
\* changed.
C29_NodesFollowThePath ==
    (SetOk /\ BuiltIn(LastNode) /\ LastNode.setFn = "structValueSet")
        => \A m \in Descendants(LastNode) :
              LET d == nodes[m]
                  rt == elemIfPtrType(typ(LastNode))
                  field == DeepSub(Decoded(rt, last.to), rt, PathFrom(LastNode, d))
              IN  /\ IsLeaf(d) => GotValue(heap, d) = field
                  /\ d.typeName = "string" => String(heap, d).s = field.v
                  /\ IsScalarNode(d)
                       => \A to \in Texts(d) :
                             LET written(s) ==
                                     s.err = ""
                                       => Cur(s.h, LastNode)
                                            = WrittenThrough(Cur(heap, LastNode), LastNode, d, to)
                             IN  written(Set(heap, d, to))

\* A field behind a pointer to a record was set, and then the record was replaced
\* through the node of the pointer: the field of the new record differs from the
\* one the old record still holds.
C29_Witness ==
    /\ SetOk /\ BuiltIn(LastNode) /\ LastNode.setFn = "structValueSet"
    /\ typ(LastNode).kind = "ptr"
    /\ Peek(pre, LastNode).reach /\ Peek(pre, LastNode).v.a # 0
    /\ Peek(heap, LastNode).v.a # Peek(pre, LastNode).v.a
    /\ \E m \in Descendants(LastNode) :
          /\ nodes[m].typeName = "string"
          /\ Cur(pre, nodes[m]) # Cur(heap, nodes[m])
          /\ GotValue(heap, nodes[m]) = Cur(heap, nodes[m])

\* The addresses of the elements of a list of pointers.
ElemAddrs(v) == {v.e[i].a : i \in 1..Len(v.e)}

\* The list a list node is bound to, as it stands in the heap h.
ListAt(h, val) ==
    LET p == Peek(h, val) IN IF p.t.kind = "ptr" THEN h[p.v.a] ELSE p.v

\* C30: a successful Set on the root node, with the built-in notation, writes
\* through the caller's pointer: the cell it points to holds the new value.  A
\* successful Set on a node of a pointer field stores in the field a pointer to
\* a cell allocated by the call, and of the cells allocated before the call at
\* most the one that holds the field has changed: what the field pointed to is
\* as it was.
\* After a successful Set on a list of pointers the new element points to a cell
\* allocated by the call, which no other element points to.
C30_SetAllocates ==
    /\ (SetOk /\ BuiltIn(LastNode) /\ LastNode.fieldsIndexes = <<>>)
          => Deep(heap, heap[root.a]) = Decoded(root.typ.elem, last.to)
    /\ (SetOk /\ BuiltIn(LastNode) /\ LastNode.fieldsIndexes # <<>>
            /\ typ(LastNode).kind = "ptr")
          => /\ Peek(heap, LastNode).v.a > Len(pre)
             /\ LET old == Peek(pre, LastNode)
                IN  (old.reach /\ old.v.a # 0)
                       => /\ heap[old.v.a] = pre[old.v.a]
                          /\ Cardinality({a \in 1..Len(pre) : heap[a] # pre[a]}) <= 1
    /\ (SetOk /\ BuiltIn(LastNode) /\ IsListNode(LastNode)
            /\ elemIfPtrType(typ(LastNode)).elem.kind = "ptr")
          => LET l == ListAt(heap, LastNode).e
             IN  /\ l[Len(l)].a > Len(pre)
                 /\ \A i \in 1..(Len(l) - 1) : l[i].a # l[Len(l)].a
                 /\ Cardinality(ElemAddrs(ListAt(heap, LastNode))) = Len(l)

\* A second Set on a pointer field: the field points to a new cell, and the cell
\* it pointed to still holds the value of the first Set.
C30_Witness ==
    /\ SetOk /\ BuiltIn(LastNode) /\ LastNode.fieldsIndexes # <<>>
    /\ typ(LastNode).kind = "ptr" /\ IsScalarNode(LastNode)
    /\ Peek(pre, LastNode).reach /\ Peek(pre, LastNode).v.a # 0
    /\ Peek(heap, LastNode).v.a # Peek(pre, LastNode).v.a
    /\ heap[Peek(pre, LastNode).v.a] = pre[Peek(pre, LastNode).v.a]
    /\ heap[Peek(pre, LastNode).v.a] # heap[Peek(heap, LastNode).v.a]

\* A Set on the root node: the cell the caller's pointer names has changed.
C30_RootWritten ==
    /\ SetOk /\ BuiltIn(LastNode) /\ LastNode.fieldsIndexes = <<>>
    /\ heap[root.a] # pre[root.a]

\* A second Set on a list of pointers: two elements, two cells.
C30_TwoElements ==
    /\ SetOk /\ BuiltIn(LastNode) /\ IsListNode(LastNode)
    /\ elemIfPtrType(typ(LastNode)).elem.kind = "ptr"
    /\ Cardinality(ElemAddrs(ListAt(heap, LastNode))) = 2

====
